---- MODULE Spec2Model ----
(***************************************************************************)
(* Model of the Vulkan back-end resource helpers of ANGLE                  *)
(* (src/libANGLE/renderer/vulkan/vk_helpers.cpp):                          *)
(*   - DynamicBuffer: the growable linear buffer suballocator;             *)
(*   - DynamicallyGrowingPool / DynamicQueryPool / DynamicSemaphorePool:   *)
(*     the recyclable fixed-capacity pools;                                *)
(*   - DynamicDescriptorPool with its per-binding-site pool references;    *)
(*   - ImageHelper: the layout / queue-family barrier state machine and    *)
(*     the queue of staged subresource updates with its staging allocator. *)
(* Each component has its own specification (SpecBuffer, SpecPool,         *)
(* SpecDescriptor, SpecImage, SpecStaging, SpecTeardown); the variables of *)
(* the other components keep their initial values there.  SpecAllocation,  *)
(* SpecAlignment, SpecTesting and SpecSubmitted restrict the operations    *)
(* and the initial states to the ones a single property is about.          *)
(***************************************************************************)
EXTENDS Integers, Sequences, FiniteSets, TLC

VARIABLES
    \* ---- the device / queue collaborator (serial oracle)
    currentSerial,                \* ContextVk::getCurrentQueueSerial()
    lastCompletedSerial,          \* ContextVk::getLastCompletedQueueSerial()
    nonCoherentAtomSize,          \* limits.nonCoherentAtomSize of the device
    \* ---- DynamicBuffer fields
    mHostVisible,
    mInitialSize,
    mBuffer,                      \* index into buffers, NoBuffer for nullptr
    mMapped,                      \* mBuffer->mMappedMemory != nullptr
    mNextAllocationOffset,
    mLastFlushOrInvalidateOffset,
    mSize,
    mAlignment,
    mInFlightBuffers,             \* sequence of buffer indices
    mBufferFreeList,              \* sequence of buffer indices
    buffers,                      \* every BufferHelper ever created
    \* ---- observation of the calls made on the DynamicBuffer
    ret,                          \* what the last call did and returned
    genLog,                       \* suballocations handed out of the current generation
    allocCalls,                   \* number of allocate calls so far
    \* ---- DynamicallyGrowingPool fields
    mPoolSize,
    mPoolStats,                   \* sequence of [freedCount, serial]
    mCurrentPool,                 \* 1-based index into mPoolStats (0 before the first pool)
    mCurrentFreeEntry,
    \* ---- observation of the calls made on the pool
    issued,                       \* (pool, slot) pairs handed out and not yet freed
    poolRet,                      \* what the last pool call did
    poolCalls,                    \* number of pool allocations so far
    \* ---- DynamicDescriptorPool fields
    mMaxSetsPerPool,
    mDescriptorPools,             \* sequence of RefCountedDescriptorPoolHelper
    mCurrentPoolIndex,            \* 1-based index into mDescriptorPools
    \* ---- the binding sites that allocate from the DynamicDescriptorPool
    bindings,                     \* site -> index of the bound pool, 0 when not valid
    descRet,                      \* what the last descriptor call did
    descCalls,                    \* number of allocateSetsAndGetInfo calls so far
    \* ---- ImageHelper fields
    mCurrentLayout,
    mCurrentQueueFamilyIndex,
    \* ---- observation of the calls made on the image
    commandBuffer,                \* the barrier commands recorded, in order
    imageCalls,                   \* the calls made, in order
    \* ---- ImageHelper fields of the staged-update queue
    mLevelCount,
    mLayerCount,
    mFormat,                      \* "color" or "depthStencil": the aspects of mFormat
    mSubresourceUpdates,          \* sequence of SubresourceUpdate
    \* ---- observation of the staged-update calls
    stagedCalls,                  \* number of stage* calls so far
    stagingRet                    \* what the last staged-update call did

serialVars == <<currentSerial, lastCompletedSerial>>
bufferVars == <<nonCoherentAtomSize, mHostVisible, mInitialSize, mBuffer, mMapped,
                mNextAllocationOffset, mLastFlushOrInvalidateOffset, mSize, mAlignment,
                mInFlightBuffers, mBufferFreeList, buffers, ret, genLog, allocCalls>>
poolVars   == <<mPoolSize, mPoolStats, mCurrentPool, mCurrentFreeEntry, issued, poolRet,
                poolCalls>>
descVars   == <<mMaxSetsPerPool, mDescriptorPools, mCurrentPoolIndex, bindings, descRet,
                descCalls>>
imageVars  == <<mCurrentLayout, mCurrentQueueFamilyIndex, commandBuffer, imageCalls>>
stagingVars == <<mLevelCount, mLayerCount, mFormat, mSubresourceUpdates, stagedCalls,
                 stagingRet>>
vars       == <<serialVars, bufferVars, poolVars, descVars, imageVars, stagingVars>>

\* ---------------------------------------------------------------- bounds
MaxAllocs == 3          \* allocate calls in one run
MaxSerial == 2          \* highest submission serial
MaxPoolCalls == 5       \* pool allocations in one run

\* ---------------------------------------------------------------- inputs
AllocSizes          == {0, 100, 924, 2000}
InitialSizes        == {1024}
RequestedAlignments == {4, 12}
AtomSizes           == {4}
PoolSizes           == {1, 2}

NoBuffer == 0

Max(a, b) == IF a >= b THEN a ELSE b
Range(s)  == {s[i] : i \in DOMAIN s}

\* ---------------------------------------------------------------- helpers
roundUp(value, alignment) == ((value + alignment - 1) \div alignment) * alignment

RECURSIVE isPow2(_)
isPow2(x) == IF x = 1 THEN TRUE
             ELSE IF x <= 0 \/ x % 2 # 0 THEN FALSE
             ELSE isPow2(x \div 2)

\* A serial is in use while the device has not completed it.
isSerialInUse(serial) == serial > lastCompletedSerial

\* CommandGraphResource::isResourceInUse of a BufferHelper.
isResourceInUse(buf) == isSerialInUse(buf.serial)

\* A BufferHelper right after a successful init with createInfo.size = size.
\* readSerial observes the users of the buffer: the submission serial under which the
\* last command that reads the buffer was recorded (0: none).
NewBufferHelper(size) ==
    [size |-> size, capacity |-> size, serial |-> 0, released |-> FALSE, readSerial |-> 0]

\* BufferHelper::release: the handles go to the garbage queue, mSize becomes 0.
ReleasedBufferHelper(buf) == [buf EXCEPT !.size = 0, !.released = TRUE]

IdleRet == [op |-> "none", result |-> "ok", buffer |-> NoBuffer, offset |-> 0,
            size |-> 0, newBuffer |-> FALSE,
            syncOffset |-> 0, syncSize |-> 0]

Running == ret.result # "nullDeref"

\* ---------------------------------------------------------------- DynamicBuffer

\* DynamicBuffer::updateAlignment: the alignment the call configures.
UpdatedAlignment_MaxOnly(alignment, atomSize) == Max(alignment, atomSize)
UpdatedAlignment(alignment, atomSize) ==
    IF isPow2(alignment) THEN Max(alignment, atomSize)
    ELSE Max(alignment \div 3, atomSize) * 3

\* allocate: the test that sends a request to a new backing buffer.
NeedsNewBuffer_OnlyWhenExceeded(nextWriteOffset) == nextWriteOffset > mSize
NeedsNewBuffer(nextWriteOffset) == nextWriteOffset >= mSize

\* allocate: the target capacity after a request larger than the target.
GrownSize_IgnoresInitialSize(sizeToAllocate) == sizeToAllocate
GrownSize_InitialSizeOnly(sizeToAllocate) == mInitialSize
GrownSize(sizeToAllocate) == Max(mInitialSize, sizeToAllocate)

\* allocate: a fresh buffer is created unless the front of the free list is idle.
MustAllocateNewBuffer_IgnoresSerial(freeList, bufs) == freeList = <<>>
MustAllocateNewBuffer(freeList, bufs) ==
    freeList = <<>> \/ isResourceInUse(bufs[Head(freeList)])

\* allocate: the offset is moved past the suballocation handed out.
OffsetAfterAllocation_NotAdvanced(offset, sizeToAllocate) == offset
OffsetAfterAllocation(offset, sizeToAllocate) == offset + sizeToAllocate

\* allocate: the free list is cleared when the target capacity grows.
FreeListAfterResize_NotCleared(grow) == mBufferFreeList
FreeListAfterResize(grow) == IF grow THEN <<>> ELSE mBufferFreeList

\* allocate: the serial stamped on the buffer that is retired.
RetirementSerial == currentSerial

\* flush / invalidate: the watermark after a successful synchronization.
WatermarkAfterSync_NotAdvanced == mLastFlushOrInvalidateOffset
WatermarkAfterSync == mNextAllocationOffset

\* flush / invalidate: there are bytes not yet synchronized.
HasUnsyncedRange == mHostVisible /\ mNextAllocationOffset > mLastFlushOrInvalidateOffset

\* releaseInFlightBuffers: the retained buffer can be reused.
IsReusable_Always(buf) == TRUE
IsReusable(buf) == ~(buf.size < mSize)

\* The components other than the DynamicBuffer are not touched by its handlers.
UnchangedPool == UNCHANGED <<poolVars, descVars, imageVars, stagingVars>>

BufferConfigUnchanged == UNCHANGED <<nonCoherentAtomSize, mHostVisible, mInitialSize>>

\* DynamicBuffer::allocate. sizeInBytes is the caller's input; flushOk, createOk and
\* mapOk are the device's answers to the fallible calls the handler may make. The
\* users of a host-visible allocator take the mapped pointer (ptrOut != nullptr,
\* which the handler asserts to imply mHostVisible); the others pass no ptrOut.
Allocate(sizeInBytes, flushOk, createOk, mapOk) ==
    LET sizeToAllocate  == roundUp(sizeInBytes, mAlignment)
        wantPtr         == mHostVisible
        nextWriteOffset == mNextAllocationOffset + sizeToAllocate
        newBuffer       == NeedsNewBuffer(nextWriteOffset)
        \* -- retire the current buffer
        retire      == newBuffer /\ mBuffer # NoBuffer
        syncing     == retire /\ HasUnsyncedRange
        flushFailed == syncing /\ ~flushOk
        buffers1    == IF retire
                       THEN [buffers EXCEPT ![mBuffer].serial = RetirementSerial]
                       ELSE buffers
        inFlight1   == IF retire THEN Append(mInFlightBuffers, mBuffer)
                       ELSE mInFlightBuffers
        \* -- grow the target capacity and drop the free list
        grow        == newBuffer /\ sizeToAllocate > mSize
        size2       == IF grow THEN GrownSize(sizeToAllocate) ELSE mSize
        buffers2    == IF grow
                       THEN [i \in DOMAIN buffers1 |->
                               IF i \in Range(mBufferFreeList)
                               THEN ReleasedBufferHelper(buffers1[i])
                               ELSE buffers1[i]]
                       ELSE buffers1
        free2       == FreeListAfterResize(grow)
        \* -- select the new current buffer
        fresh        == newBuffer /\ MustAllocateNewBuffer(free2, buffers2)
        createFailed == fresh /\ ~createOk
        buffers3     == IF fresh THEN Append(buffers2, NewBufferHelper(size2))
                        ELSE buffers2
        buffer3      == IF ~newBuffer THEN mBuffer
                        ELSE IF fresh THEN Len(buffers2) + 1
                        ELSE Head(free2)
        free3        == IF newBuffer /\ ~fresh THEN Tail(free2) ELSE free2
        offset3      == IF newBuffer THEN 0 ELSE mNextAllocationOffset
        \* -- map the buffer when the caller wants a pointer
        mapping      == wantPtr /\ ~(mMapped /\ ~newBuffer)
        mapFailed    == mapping /\ ~mapOk
        base         == [IdleRet EXCEPT !.op = "allocate", !.size = sizeToAllocate,
                                        !.newBuffer = newBuffer,
                                        !.syncOffset = IF syncing /\ flushOk
                                                       THEN mLastFlushOrInvalidateOffset
                                                       ELSE 0,
                                        !.syncSize = IF syncing /\ flushOk
                                                     THEN mNextAllocationOffset -
                                                          mLastFlushOrInvalidateOffset
                                                     ELSE 0]
    IN
    /\ Running
    /\ allocCalls < MaxAllocs
    /\ allocCalls' = allocCalls + 1
    /\ BufferConfigUnchanged
    /\ UNCHANGED <<serialVars, mAlignment>>
    /\ IF flushFailed
       THEN \* ANGLE_TRY(flush(contextVk)) returns before anything is changed
            /\ ret' = [base EXCEPT !.result = "flushFailed"]
            /\ UNCHANGED <<mBuffer, mMapped, mNextAllocationOffset,
                           mLastFlushOrInvalidateOffset, mSize, mInFlightBuffers,
                           mBufferFreeList, buffers, genLog>>
       ELSE IF createFailed
       THEN \* ANGLE_TRY(allocateNewBuffer(contextVk)) returns after the retirement
            /\ ret' = [base EXCEPT !.result = "createFailed"]
            /\ mBuffer' = NoBuffer
            /\ mMapped' = FALSE
            /\ mLastFlushOrInvalidateOffset' =
                   IF syncing THEN mNextAllocationOffset ELSE mLastFlushOrInvalidateOffset
            /\ mSize' = size2
            /\ mInFlightBuffers' = inFlight1
            /\ mBufferFreeList' = free2
            /\ buffers' = buffers2
            /\ genLog' = IF retire THEN <<>> ELSE genLog
            /\ UNCHANGED mNextAllocationOffset
       ELSE IF ~newBuffer /\ mBuffer = NoBuffer
       THEN \* ASSERT(mBuffer != nullptr) fails; the next line dereferences nullptr
            /\ ret' = [base EXCEPT !.result = "nullDeref"]
            /\ UNCHANGED <<mBuffer, mMapped, mNextAllocationOffset,
                           mLastFlushOrInvalidateOffset, mSize, mInFlightBuffers,
                           mBufferFreeList, buffers, genLog>>
       ELSE /\ mBuffer' = buffer3
            /\ mSize' = size2
            /\ mInFlightBuffers' = inFlight1
            /\ mBufferFreeList' = free3
            /\ buffers' = buffers3
            /\ mLastFlushOrInvalidateOffset' =
                   IF newBuffer THEN 0 ELSE mLastFlushOrInvalidateOffset
            /\ IF mapFailed
               THEN \* ANGLE_TRY(mBuffer->map(...)) returns before the offset moves
                    /\ ret' = [base EXCEPT !.result = "mapFailed", !.buffer = buffer3]
                    /\ mMapped' = IF newBuffer THEN FALSE ELSE mMapped
                    /\ mNextAllocationOffset' = offset3
                    /\ genLog' = IF newBuffer THEN <<>> ELSE genLog
               ELSE /\ ret' = [base EXCEPT !.buffer = buffer3, !.offset = offset3]
                    /\ mMapped' = IF wantPtr THEN TRUE
                                  ELSE IF newBuffer THEN FALSE ELSE mMapped
                    /\ mNextAllocationOffset' = OffsetAfterAllocation(offset3, sizeToAllocate)
                    /\ genLog' = Append(IF newBuffer THEN <<>> ELSE genLog,
                                        [offset |-> offset3, size |-> sizeToAllocate,
                                         alignment |-> mAlignment,
                                         buffer |-> buffer3])

AllocateAction ==
    \E sizeInBytes \in AllocSizes, flushOk, createOk, mapOk \in BOOLEAN :
        /\ Allocate(sizeInBytes, flushOk, createOk, mapOk)
        /\ UnchangedPool

\* DynamicBuffer::flush and DynamicBuffer::invalidate have the same structure:
\* synchronize [mLastFlushOrInvalidateOffset, mNextAllocationOffset) and move the
\* watermark. syncOk is the device's answer.
SyncRange(op, syncOk) ==
    /\ Running
    /\ BufferConfigUnchanged
    /\ UNCHANGED <<serialVars, mBuffer, mMapped, mNextAllocationOffset, mSize, mAlignment,
                   mInFlightBuffers, mBufferFreeList, buffers, genLog, allocCalls>>
    /\ UnchangedPool
    /\ IF ~HasUnsyncedRange
       THEN /\ ret' = [IdleRet EXCEPT !.op = op]
            /\ UNCHANGED mLastFlushOrInvalidateOffset
       ELSE IF mBuffer = NoBuffer
       THEN \* ASSERT(mBuffer != nullptr) fails
            /\ ret' = [IdleRet EXCEPT !.op = op, !.result = "nullDeref"]
            /\ UNCHANGED mLastFlushOrInvalidateOffset
       ELSE IF ~syncOk
       THEN /\ ret' = [IdleRet EXCEPT !.op = op, !.result = "syncFailed"]
            /\ UNCHANGED mLastFlushOrInvalidateOffset
       ELSE /\ ret' = [IdleRet EXCEPT !.op = op, !.buffer = mBuffer,
                                      !.syncOffset = mLastFlushOrInvalidateOffset,
                                      !.syncSize = mNextAllocationOffset -
                                                   mLastFlushOrInvalidateOffset]
            /\ mLastFlushOrInvalidateOffset' = WatermarkAfterSync

Flush == \E syncOk \in BOOLEAN : SyncRange("flush", syncOk)

Invalidate == \E syncOk \in BOOLEAN : SyncRange("invalidate", syncOk)

\* releaseInFlightBuffers as it would be if it left the generations the device still
\* uses in the in-flight list.
ReleaseInFlightBuffers_KeepsUnretired ==
    LET idle(b) == ~isResourceInUse(buffers[b])
    IN
    /\ Running
    /\ BufferConfigUnchanged
    /\ UNCHANGED <<serialVars, mBuffer, mMapped, mNextAllocationOffset,
                   mLastFlushOrInvalidateOffset, mSize, mAlignment, genLog, allocCalls>>
    /\ UnchangedPool
    /\ mBufferFreeList' =
           mBufferFreeList \o SelectSeq(mInFlightBuffers,
                                        LAMBDA b : idle(b) /\ IsReusable(buffers[b]))
    /\ buffers' = [i \in DOMAIN buffers |->
                     IF i \in Range(mInFlightBuffers) /\ idle(i) /\ ~IsReusable(buffers[i])
                     THEN ReleasedBufferHelper(buffers[i])
                     ELSE buffers[i]]
    /\ mInFlightBuffers' = SelectSeq(mInFlightBuffers, LAMBDA b : ~idle(b))
    /\ ret' = [IdleRet EXCEPT !.op = "releaseInFlightBuffers"]

\* releaseInFlightBuffers as it would be if it put the retained buffers in front of
\* the free list.
ReleaseInFlightBuffers_NewestFirst ==
    /\ Running
    /\ BufferConfigUnchanged
    /\ UNCHANGED <<serialVars, mBuffer, mMapped, mNextAllocationOffset,
                   mLastFlushOrInvalidateOffset, mSize, mAlignment, genLog, allocCalls>>
    /\ UnchangedPool
    /\ mBufferFreeList' =
           SelectSeq(mInFlightBuffers, LAMBDA b : IsReusable(buffers[b])) \o mBufferFreeList
    /\ buffers' = [i \in DOMAIN buffers |->
                     IF i \in Range(mInFlightBuffers) /\ ~IsReusable(buffers[i])
                     THEN ReleasedBufferHelper(buffers[i])
                     ELSE buffers[i]]
    /\ mInFlightBuffers' = <<>>
    /\ ret' = [IdleRet EXCEPT !.op = "releaseInFlightBuffers"]

\* DynamicBuffer::releaseInFlightBuffers.
ReleaseInFlightBuffers ==
    /\ Running
    /\ BufferConfigUnchanged
    /\ UNCHANGED <<serialVars, mBuffer, mMapped, mNextAllocationOffset,
                   mLastFlushOrInvalidateOffset, mSize, mAlignment, genLog, allocCalls>>
    /\ UnchangedPool
    /\ mBufferFreeList' =
           mBufferFreeList \o SelectSeq(mInFlightBuffers, LAMBDA b : IsReusable(buffers[b]))
    /\ buffers' = [i \in DOMAIN buffers |->
                     IF i \in Range(mInFlightBuffers) /\ ~IsReusable(buffers[i])
                     THEN ReleasedBufferHelper(buffers[i])
                     ELSE buffers[i]]
    /\ mInFlightBuffers' = <<>>
    /\ ret' = [IdleRet EXCEPT !.op = "releaseInFlightBuffers"]

\* DynamicBuffer::updateAlignment, called with an alignment its assertions accept.
UpdateAlignment(alignment) ==
    LET newAlignment == UpdatedAlignment(alignment, nonCoherentAtomSize)
    IN
    /\ Running
    /\ alignment > 0
    /\ isPow2(nonCoherentAtomSize)
    /\ isPow2(alignment) \/ (alignment % 3 = 0 /\ isPow2(alignment \div 3))
    /\ newAlignment # mAlignment
    /\ mNextAllocationOffset' = roundUp(mNextAllocationOffset, newAlignment)
    /\ mAlignment' = newAlignment
    /\ ret' = [IdleRet EXCEPT !.op = "updateAlignment"]
    /\ BufferConfigUnchanged
    /\ UNCHANGED <<serialVars, mBuffer, mMapped, mLastFlushOrInvalidateOffset, mSize,
                   mInFlightBuffers, mBufferFreeList, buffers, genLog, allocCalls>>
    /\ UnchangedPool

UpdateAlignmentAction == \E alignment \in RequestedAlignments : UpdateAlignment(alignment)

\* ---------------------------------------------------------------- serial oracle

\* The recorded work is submitted: later work is stamped with the next serial.
SubmitCommands ==
    /\ currentSerial < MaxSerial
    /\ currentSerial' = currentSerial + 1
    /\ UNCHANGED lastCompletedSerial

\* The device completes the oldest submitted serial.
CompleteSerial ==
    /\ lastCompletedSerial + 1 < currentSerial
    /\ lastCompletedSerial' = lastCompletedSerial + 1
    /\ UNCHANGED currentSerial

\* ---------------------------------------------------------------- specifications
InitSerials ==
    /\ currentSerial = 1
    /\ lastCompletedSerial = 0

InitPoolIdle ==
    /\ mPoolSize = 0
    /\ mPoolStats = <<>>
    /\ mCurrentPool = 0
    /\ mCurrentFreeEntry = 0
    /\ issued = {}
    /\ poolRet = [op |-> "none", result |-> "ok", pool |-> 0, slot |-> 0,
                  reused |-> FALSE, created |-> FALSE]
    /\ poolCalls = 0

\* The DynamicDescriptorPool while another component runs.
InitDescriptorIdle ==
    /\ mMaxSetsPerPool = 0
    /\ mDescriptorPools = <<>>
    /\ mCurrentPoolIndex = 0
    /\ bindings = <<>>
    /\ descRet = [op |-> "none"]
    /\ descCalls = 0

\* The ImageHelper while another component runs.
InitImageIdle ==
    /\ mCurrentLayout = "Undefined"
    /\ mCurrentQueueFamilyIndex = 0
    /\ commandBuffer = <<>>
    /\ imageCalls = <<>>

\* The staged-update queue of an ImageHelper while another component runs.
InitStagingIdle ==
    /\ mLevelCount = 0
    /\ mLayerCount = 0
    /\ mFormat = "color"
    /\ mSubresourceUpdates = <<>>
    /\ stagedCalls = 0
    /\ stagingRet = [op |-> "none"]

\* The DynamicBuffer after its constructor and init().
InitBuffer ==
    /\ nonCoherentAtomSize \in AtomSizes
    /\ mHostVisible \in BOOLEAN
    /\ mInitialSize \in InitialSizes
    /\ mBuffer = NoBuffer
    /\ mMapped = FALSE
    /\ mNextAllocationOffset = 0
    /\ mLastFlushOrInvalidateOffset = 0
    /\ mSize = 0
    /\ \E alignment \in RequestedAlignments :
           mAlignment = UpdatedAlignment(alignment, nonCoherentAtomSize)
    /\ mInFlightBuffers = <<>>
    /\ mBufferFreeList = <<>>
    /\ buffers = <<>>
    /\ ret = IdleRet
    /\ genLog = <<>>
    /\ allocCalls = 0

SerialStepForBuffer ==
    /\ Running
    /\ SubmitCommands \/ CompleteSerial
    /\ UNCHANGED <<ret, nonCoherentAtomSize, mHostVisible, mInitialSize, mBuffer, mMapped,
                   mNextAllocationOffset, mLastFlushOrInvalidateOffset, mSize, mAlignment,
                   mInFlightBuffers, mBufferFreeList, buffers, genLog, allocCalls>>
    /\ UnchangedPool

InitB ==
    InitSerials /\ InitBuffer /\ InitPoolIdle /\ InitDescriptorIdle /\ InitImageIdle /\ InitStagingIdle

NextBuffer ==
    \/ AllocateAction
    \/ Flush
    \/ Invalidate
    \/ ReleaseInFlightBuffers
    \/ SerialStepForBuffer

SpecBuffer == InitB /\ [][NextBuffer]_vars

\* ---------------------------------------------------------------- DynamicallyGrowingPool
\* The model's pool indices are 1-based: pool i of the model is mPools[i - 1].

IdlePoolRet == [op |-> "none", result |-> "ok", pool |-> 0, slot |-> 0,
                reused |-> FALSE, created |-> FALSE]

\* PoolStats of a pool just added by allocateNewEntryPool.
NewPoolStats == [freedCount |-> 0, serial |-> 0]

\* findFreeEntryPool: the test a pool must pass to be reused.
IsFreeEntryPool_IgnoresSerial(stats) == stats.freedCount = mPoolSize
IsFreeEntryPool(stats) ==
    stats.freedCount = mPoolSize /\ stats.serial <= lastCompletedSerial

\* findFreeEntryPool: the pools that pass the test; the loop takes the first.
FreeEntryPools_None == {}
FreeEntryPools == {i \in DOMAIN mPoolStats : IsFreeEntryPool(mPoolStats[i])}

FirstFreeEntryPool == CHOOSE i \in FreeEntryPools : \A j \in FreeEntryPools : i <= j

\* findFreeEntryPool: the statistics of the pool it selects are reset.
ResetStats_KeepsFreedCount(stats) == stats
ResetStats(stats) == [stats EXCEPT !.freedCount = 0]

\* onEntryFreed: the statistics of the pool after one of its entries is freed.
FreedStats_SerialNotStamped(stats) == [stats EXCEPT !.freedCount = @ + 1]
FreedStats(stats) == [freedCount |-> stats.freedCount + 1, serial |-> currentSerial]

\* allocateQuery / allocateSemaphore: the current pool has no entry left.
CurrentPoolExhausted_OffByOne == mCurrentFreeEntry > mPoolSize
CurrentPoolExhausted == mCurrentFreeEntry >= mPoolSize

\* DynamicQueryPool::allocateQuery and DynamicSemaphorePool::allocateSemaphore, with
\* allocateNewPool, findFreeEntryPool and allocateNewEntryPool. createOk is the
\* device's answer should a native pool have to be created.
AllocateEntry(createOk) ==
    LET exhausted == CurrentPoolExhausted
        found     == exhausted /\ FreeEntryPools # {}
        create    == exhausted /\ ~found
        pool      == IF found THEN FirstFreeEntryPool
                     ELSE IF create THEN Len(mPoolStats) + 1
                     ELSE mCurrentPool
        stats1    == IF found THEN [mPoolStats EXCEPT ![pool] = ResetStats(@)]
                     ELSE IF create THEN Append(mPoolStats, NewPoolStats)
                     ELSE mPoolStats
        entry     == IF exhausted THEN 0 ELSE mCurrentFreeEntry
    IN
    /\ poolCalls < MaxPoolCalls
    /\ poolCalls' = poolCalls + 1
    /\ UNCHANGED <<serialVars, bufferVars, mPoolSize, descVars, imageVars, stagingVars>>
    /\ IF create /\ ~createOk
       THEN \* ANGLE_VK_TRY(queryPool.init(...)) returns before anything is changed
            /\ poolRet' = [IdlePoolRet EXCEPT !.op = "allocate", !.result = "createFailed"]
            /\ UNCHANGED <<mPoolStats, mCurrentPool, mCurrentFreeEntry, issued>>
       ELSE /\ mPoolStats' = stats1
            /\ mCurrentPool' = pool
            /\ mCurrentFreeEntry' = entry + 1
            /\ issued' = issued \cup {<<pool, entry>>}
            /\ poolRet' = [IdlePoolRet EXCEPT !.op = "allocate", !.pool = pool,
                                              !.slot = entry, !.reused = found,
                                              !.created = create]

AllocateEntryAction == \E createOk \in BOOLEAN : AllocateEntry(createOk)

\* DynamicQueryPool::freeQuery and DynamicSemaphorePool::freeSemaphore with
\* onEntryFreed, called for an entry that was handed out and not freed yet.
FreeEntry(poolIndex, entry) ==
    /\ <<poolIndex, entry>> \in issued
    /\ poolIndex \in DOMAIN mPoolStats
    /\ mPoolStats[poolIndex].freedCount < mPoolSize
    /\ mPoolStats' = [mPoolStats EXCEPT ![poolIndex] = FreedStats(@)]
    /\ issued' = issued \ {<<poolIndex, entry>>}
    /\ poolRet' = [IdlePoolRet EXCEPT !.op = "free", !.pool = poolIndex, !.slot = entry]
    /\ UNCHANGED <<serialVars, bufferVars, mPoolSize, mCurrentPool, mCurrentFreeEntry,
                   poolCalls, descVars, imageVars, stagingVars>>

FreeEntryAction == \E e \in issued : FreeEntry(e[1], e[2])

SerialStepForPool ==
    /\ SubmitCommands \/ CompleteSerial
    /\ UNCHANGED <<bufferVars, poolVars, descVars, imageVars, stagingVars>>

\* The buffer's variables while the pool runs.
InitBufferIdle ==
    /\ nonCoherentAtomSize = 1
    /\ mHostVisible = FALSE
    /\ mInitialSize = 0
    /\ mBuffer = NoBuffer
    /\ mMapped = FALSE
    /\ mNextAllocationOffset = 0
    /\ mLastFlushOrInvalidateOffset = 0
    /\ mSize = 0
    /\ mAlignment = 0
    /\ mInFlightBuffers = <<>>
    /\ mBufferFreeList = <<>>
    /\ buffers = <<>>
    /\ ret = IdleRet
    /\ genLog = <<>>
    /\ allocCalls = 0

\* The pool after DynamicQueryPool::init / DynamicSemaphorePool::init succeeded:
\* initEntryPool set the capacity and allocateNewPool added the first pool.
InitPool ==
    /\ mPoolSize \in PoolSizes
    /\ mPoolStats = <<NewPoolStats>>
    /\ mCurrentPool = 1
    /\ mCurrentFreeEntry = 0
    /\ issued = {}
    /\ poolRet = IdlePoolRet
    /\ poolCalls = 0

InitP ==
    InitSerials /\ InitBufferIdle /\ InitPool /\ InitDescriptorIdle /\ InitImageIdle /\ InitStagingIdle

NextPool ==
    \/ AllocateEntryAction
    \/ FreeEntryAction
    \/ SerialStepForPool

SpecPool == InitP /\ [][NextPool]_vars

\* ---------------------------------------------------------------- DynamicDescriptorPool
\* The model's pool indices are 1-based: pool i of the model is mDescriptorPools[i - 1].

MaxDescCalls == 5       \* allocateSetsAndGetInfo calls in one run
kMaxPools    == 3       \* the ceiling of allocateNewPool, scaled down from 99999

BindingSites         == {1, 2}
DescriptorSetCounts  == {1, 2}
MaxSetsPerPoolValues == {2}     \* as set by setMaxSetsPerPoolForTesting

IdleDescRet == [op |-> "none", result |-> "ok", site |-> 0, count |-> 0, pool |-> 0,
                newPool |-> FALSE, rebound |-> FALSE, initialized |-> 0, stamped |-> 0]

DescRunning == descRet.result \notin {"invalidHandle", "assertFailed"}

\* new RefCountedDescriptorPoolHelper(): no reference, no native pool, no free set, a
\* default serial. inits counts the calls of DescriptorPoolHelper::init on the helper
\* and lastAlloc is the submission serial of the last allocateSets from it.
NewDescriptorPoolHelper ==
    [free |-> 0, serial |-> 0, refCount |-> 0, valid |-> FALSE, inits |-> 0, lastAlloc |-> 0]

\* DescriptorPoolHelper::hasCapacity.
hasCapacity(pool, descriptorSetCount) == pool.free >= descriptorSetCount

\* DescriptorPoolHelper::init: the old native pool is destroyed, mFreeDescriptorSets is
\* set, then the native pool is created; initOk is the device's answer.
InitializedPool(pool, initOk) ==
    [pool EXCEPT !.free = mMaxSetsPerPool, !.valid = initOk, !.inits = @ + 1]

\* allocateNewPool: the test a pool must pass to be initialized again.
IsRecyclable_IgnoresSerial(pool) == pool.refCount = 0
IsRecyclable(pool) == pool.refCount = 0 /\ ~isSerialInUse(pool.serial)

\* allocateNewPool: the pools that pass the test; the loop takes the first.
RecyclablePools == {i \in DOMAIN mDescriptorPools : IsRecyclable(mDescriptorPools[i])}

FirstRecyclablePool == CHOOSE i \in RecyclablePools : \A j \in RecyclablePools : i <= j

\* allocateNewPool: the check made after a pool was appended.
WithinPoolCeiling(poolCount) == poolCount < kMaxPools

\* allocateSetsAndGetInfo: the binding site cannot be served by the pool it is bound to.
NeedsRebind_WhenNotCurrent(site, descriptorSetCount) ==
    \/ bindings[site] = 0
    \/ bindings[site] # mCurrentPoolIndex
    \/ ~hasCapacity(mDescriptorPools[bindings[site]], descriptorSetCount)
NeedsRebind(site, descriptorSetCount) ==
    \/ bindings[site] = 0
    \/ ~hasCapacity(mDescriptorPools[bindings[site]], descriptorSetCount)

\* allocateSetsAndGetInfo: the serial stamped on the pool a binding site leaves.
StampedSerial(pool) == currentSerial

\* DynamicDescriptorPool::allocateSetsAndGetInfo with allocateNewPool,
\* DescriptorPoolHelper::init and DescriptorPoolHelper::allocateSets. site names the
\* caller's binding (bindingOut); initOk and allocOk are the device's answers to the
\* native pool creation and to the descriptor set allocation.
AllocateSetsAndGetInfo(site, descriptorSetCount, initOk, allocOk) ==
    LET old      == bindings[site]
        rebind   == NeedsRebind(site, descriptorSetCount)
        \* -- allocateNewPool
        newPool  == rebind /\ ~hasCapacity(mDescriptorPools[mCurrentPoolIndex],
                                           descriptorSetCount)
        found    == newPool /\ RecyclablePools # {}
        pushed   == newPool /\ ~found
        pools1   == IF pushed THEN Append(mDescriptorPools, NewDescriptorPoolHelper)
                    ELSE mDescriptorPools
        current1 == IF found THEN FirstRecyclablePool
                    ELSE IF pushed THEN Len(pools1)
                    ELSE mCurrentPoolIndex
        tooMany    == pushed /\ ~WithinPoolCeiling(Len(pools1))
        initialize == newPool /\ ~tooMany
        initFailed == initialize /\ ~initOk
        pools2   == IF initialize
                    THEN [pools1 EXCEPT ![current1] = InitializedPool(@, initOk)]
                    ELSE pools1
        \* -- stamp the pool the binding leaves, then bindingOut->set(current pool)
        pools3   == IF rebind /\ old # 0
                    THEN [pools2 EXCEPT ![old].serial = StampedSerial(@)]
                    ELSE pools2
        released == IF rebind /\ old # 0
                    THEN [pools3 EXCEPT ![old].refCount = @ - 1]
                    ELSE pools3
        pools4   == IF rebind THEN [released EXCEPT ![current1].refCount = @ + 1]
                    ELSE released
        bound    == IF rebind THEN current1 ELSE old
        \* -- DescriptorPoolHelper::allocateSets
        assertFailed == ~hasCapacity(pools4[bound], descriptorSetCount)
        pools5   == [pools4 EXCEPT ![bound].free = @ - descriptorSetCount,
                                   ![bound].lastAlloc = currentSerial]
        base     == [IdleDescRet EXCEPT !.op = "allocate", !.site = site,
                                        !.count = descriptorSetCount,
                                        !.initialized = IF initialize THEN current1 ELSE 0]
        done     == [base EXCEPT !.pool = bound, !.newPool = newPool, !.rebound = rebind,
                                 !.stamped = IF rebind THEN old ELSE 0]
    IN
    /\ DescRunning
    /\ descCalls < MaxDescCalls
    /\ descCalls' = descCalls + 1
    /\ UNCHANGED <<serialVars, bufferVars, poolVars, imageVars, stagingVars,
                   mMaxSetsPerPool>>
    /\ IF tooMany
       THEN \* ANGLE_VK_CHECK fails after the push_back
            /\ descRet' = [base EXCEPT !.result = "tooManyObjects"]
            /\ mDescriptorPools' = pools1
            /\ mCurrentPoolIndex' = current1
            /\ UNCHANGED bindings
       ELSE IF initFailed
       THEN \* DescriptorPoolHelper::init fails after it reset the helper
            /\ descRet' = [base EXCEPT !.result = "initFailed"]
            /\ mDescriptorPools' = pools2
            /\ mCurrentPoolIndex' = current1
            /\ UNCHANGED bindings
       ELSE IF assertFailed
       THEN \* ASSERT(mFreeDescriptorSets >= descriptorSetCount) fails
            /\ descRet' = [done EXCEPT !.result = "assertFailed"]
            /\ mDescriptorPools' = pools4
            /\ mCurrentPoolIndex' = current1
            /\ bindings' = [bindings EXCEPT ![site] = bound]
       ELSE /\ descRet' = [done EXCEPT !.result =
                              IF ~pools4[bound].valid THEN "invalidHandle"
                              ELSE IF ~allocOk THEN "allocFailed"
                              ELSE "ok"]
            /\ mDescriptorPools' = pools5
            /\ mCurrentPoolIndex' = current1
            /\ bindings' = [bindings EXCEPT ![site] = bound]

AllocateSetsAndGetInfoAction ==
    \E site \in BindingSites, descriptorSetCount \in DescriptorSetCounts,
       initOk, allocOk \in BOOLEAN :
        AllocateSetsAndGetInfo(site, descriptorSetCount, initOk, allocOk)

SerialStepForDescriptor ==
    /\ DescRunning
    /\ SubmitCommands \/ CompleteSerial
    /\ UNCHANGED <<bufferVars, poolVars, descVars, imageVars, stagingVars>>

\* The DynamicDescriptorPool after setMaxSetsPerPoolForTesting and a successful init:
\* one initialized pool that no binding site references yet.
InitDescriptor ==
    /\ mMaxSetsPerPool \in MaxSetsPerPoolValues
    /\ mDescriptorPools = <<InitializedPool(NewDescriptorPoolHelper, TRUE)>>
    /\ mCurrentPoolIndex = 1
    /\ bindings = [site \in BindingSites |-> 0]
    /\ descRet = IdleDescRet
    /\ descCalls = 0

InitD ==
    InitSerials /\ InitBufferIdle /\ InitPoolIdle /\ InitDescriptor /\ InitImageIdle /\ InitStagingIdle

NextDescriptor ==
    \/ AllocateSetsAndGetInfoAction
    \/ SerialStepForDescriptor

SpecDescriptor == InitD /\ [][NextDescriptor]_vars

\* ---------------------------------------------------------------- ImageHelper
\* Stage and access masks are sets of flag names: the union of two sets is the
\* bitwise or of the two masks.

MaxImageCalls == 3      \* layout / queue transitions requested in one run

QueueFamilies  == {0, 1}
InitialLayouts == {"Undefined", "ExternalPreInitialized"}

\* One ImageMemoryBarrierData entry.
ImageMemoryBarrierData(layout, dstStage, srcStage, dstAccess, srcAccess, sameLayoutBarrier) ==
    [layout |-> layout, dstStageMask |-> dstStage, srcStageMask |-> srcStage,
     dstAccessMask |-> dstAccess, srcAccessMask |-> srcAccess,
     sameLayoutTransitionRequiresBarrier |-> sameLayoutBarrier]

\* The enum ImageLayout: the keys of kImageMemoryBarrierData.
ImageLayout ==
    {"Undefined", "ExternalPreInitialized", "TransferSrc", "TransferDst",
     "ComputeShaderReadOnly", "ComputeShaderWrite", "AllGraphicsShadersReadOnly",
     "AllGraphicsShadersWrite", "ColorAttachment", "DepthStencilAttachment", "Present"}

kImageMemoryBarrierData ==
    [key \in ImageLayout |->
      CASE key = "Undefined" ->
             ImageMemoryBarrierData("UNDEFINED", {"BOTTOM_OF_PIPE"}, {"TOP_OF_PIPE"},
                                    {}, {}, FALSE)
        [] key = "ExternalPreInitialized" ->
             ImageMemoryBarrierData("PREINITIALIZED", {"BOTTOM_OF_PIPE"},
                                    {"HOST", "ALL_COMMANDS"}, {}, {"MEMORY_WRITE"}, FALSE)
        [] key = "TransferSrc" ->
             ImageMemoryBarrierData("TRANSFER_SRC_OPTIMAL", {"TRANSFER"}, {"TRANSFER"},
                                    {"TRANSFER_READ"}, {}, FALSE)
        [] key = "TransferDst" ->
             ImageMemoryBarrierData("TRANSFER_DST_OPTIMAL", {"TRANSFER"}, {"TRANSFER"},
                                    {"TRANSFER_WRITE"}, {"TRANSFER_WRITE"}, TRUE)
        [] key = "ComputeShaderReadOnly" ->
             ImageMemoryBarrierData("SHADER_READ_ONLY_OPTIMAL", {"COMPUTE_SHADER"},
                                    {"COMPUTE_SHADER"}, {"SHADER_READ"}, {}, FALSE)
        [] key = "ComputeShaderWrite" ->
             ImageMemoryBarrierData("GENERAL", {"COMPUTE_SHADER"}, {"COMPUTE_SHADER"},
                                    {"SHADER_READ", "SHADER_WRITE"}, {"SHADER_WRITE"}, TRUE)
        [] key = "AllGraphicsShadersReadOnly" ->
             ImageMemoryBarrierData("SHADER_READ_ONLY_OPTIMAL", {"ALL_GRAPHICS"},
                                    {"ALL_GRAPHICS"}, {"SHADER_READ"}, {}, FALSE)
        [] key = "AllGraphicsShadersWrite" ->
             ImageMemoryBarrierData("GENERAL", {"ALL_GRAPHICS"}, {"ALL_GRAPHICS"},
                                    {"SHADER_READ", "SHADER_WRITE"}, {"SHADER_WRITE"}, TRUE)
        [] key = "ColorAttachment" ->
             ImageMemoryBarrierData("COLOR_ATTACHMENT_OPTIMAL",
                                    {"COLOR_ATTACHMENT_OUTPUT"}, {"COLOR_ATTACHMENT_OUTPUT"},
                                    {"COLOR_ATTACHMENT_READ", "COLOR_ATTACHMENT_WRITE"},
                                    {"COLOR_ATTACHMENT_WRITE"}, TRUE)
        [] key = "DepthStencilAttachment" ->
             ImageMemoryBarrierData("DEPTH_STENCIL_ATTACHMENT_OPTIMAL",
                                    {"EARLY_FRAGMENT_TESTS", "LATE_FRAGMENT_TESTS"},
                                    {"EARLY_FRAGMENT_TESTS", "LATE_FRAGMENT_TESTS"},
                                    {"DEPTH_STENCIL_ATTACHMENT_READ",
                                     "DEPTH_STENCIL_ATTACHMENT_WRITE"},
                                    {"DEPTH_STENCIL_ATTACHMENT_WRITE"}, TRUE)
        [] key = "Present" ->
             ImageMemoryBarrierData("PRESENT_SRC_KHR", {"BOTTOM_OF_PIPE"}, {"TOP_OF_PIPE"},
                                    {}, {}, FALSE)]

\* ImageHelper::isLayoutChangeNecessary.
isLayoutChangeNecessary_OnlyWhenDifferent(newLayout) == mCurrentLayout # newLayout
isLayoutChangeNecessary(newLayout) ==
    LET layoutData == kImageMemoryBarrierData[mCurrentLayout]
        sameLayoutAndNoNeedForBarrier ==
            mCurrentLayout = newLayout /\ ~layoutData.sameLayoutTransitionRequiresBarrier
    IN  ~sameLayoutAndNoNeedForBarrier

\* ImageHelper::isQueueChangeNeccesary.
isQueueChangeNeccesary(newQueueFamilyIndex) ==
    mCurrentQueueFamilyIndex # newQueueFamilyIndex

\* forceChangeLayoutAndQueue: an execution barrier suffices.
ExecutionBarrierSuffices_AlsoTransferDst(newLayout, newQueueFamilyIndex) ==
    mCurrentLayout = newLayout /\ mCurrentQueueFamilyIndex = newQueueFamilyIndex
ExecutionBarrierSuffices_AnyQueue(newLayout, newQueueFamilyIndex) ==
    mCurrentLayout = newLayout /\ mCurrentLayout # "TransferDst"
ExecutionBarrierSuffices(newLayout, newQueueFamilyIndex) ==
    /\ mCurrentLayout = newLayout
    /\ mCurrentQueueFamilyIndex = newQueueFamilyIndex
    /\ mCurrentLayout # "TransferDst"

\* CommandBuffer::executionBarrier(stageMask) as forceChangeLayoutAndQueue records it.
ExecutionBarrier(transition) ==
    [command |-> "executionBarrier", stageMask |-> transition.dstStageMask,
     assertedSrcStageMask |-> transition.srcStageMask]

\* CommandBuffer::imageBarrier(srcStageMask, dstStageMask, &imageMemoryBarrier) as
\* forceChangeLayoutAndQueue records it.
ImageBarrier_SwappedAccess(transitionFrom, transitionTo, newQueueFamilyIndex) ==
    [command |-> "imageBarrier",
     srcStageMask |-> transitionFrom.srcStageMask,
     dstStageMask |-> transitionTo.dstStageMask,
     srcAccessMask |-> transitionFrom.dstAccessMask,
     dstAccessMask |-> transitionTo.srcAccessMask,
     oldLayout |-> transitionFrom.layout,
     newLayout |-> transitionTo.layout,
     srcQueueFamilyIndex |-> mCurrentQueueFamilyIndex,
     dstQueueFamilyIndex |-> newQueueFamilyIndex]
ImageBarrier(transitionFrom, transitionTo, newQueueFamilyIndex) ==
    [command |-> "imageBarrier",
     srcStageMask |-> transitionFrom.srcStageMask,
     dstStageMask |-> transitionTo.dstStageMask,
     srcAccessMask |-> transitionFrom.srcAccessMask,
     dstAccessMask |-> transitionTo.dstAccessMask,
     oldLayout |-> transitionFrom.layout,
     newLayout |-> transitionTo.layout,
     srcQueueFamilyIndex |-> mCurrentQueueFamilyIndex,
     dstQueueFamilyIndex |-> newQueueFamilyIndex]

UnchangedByImage == UNCHANGED <<serialVars, bufferVars, poolVars, descVars, stagingVars>>

\* ImageHelper::forceChangeLayoutAndQueue.
ForceChangeLayoutAndQueue(newLayout, newQueueFamilyIndex) ==
    IF ExecutionBarrierSuffices(newLayout, newQueueFamilyIndex)
    THEN /\ commandBuffer' =
                Append(commandBuffer, ExecutionBarrier(kImageMemoryBarrierData[mCurrentLayout]))
         /\ UNCHANGED <<mCurrentLayout, mCurrentQueueFamilyIndex>>
    ELSE /\ commandBuffer' =
                Append(commandBuffer,
                       ImageBarrier(kImageMemoryBarrierData[mCurrentLayout],
                                    kImageMemoryBarrierData[newLayout], newQueueFamilyIndex))
         /\ mCurrentLayout' = newLayout
         /\ mCurrentQueueFamilyIndex' = newQueueFamilyIndex

\* ImageHelper::changeLayout.
ChangeLayout(newLayout) ==
    /\ Len(imageCalls) < MaxImageCalls
    /\ imageCalls' = Append(imageCalls, [op |-> "changeLayout", layout |-> newLayout,
                                         queue |-> mCurrentQueueFamilyIndex])
    /\ UnchangedByImage
    /\ IF ~isLayoutChangeNecessary(newLayout)
       THEN UNCHANGED <<mCurrentLayout, mCurrentQueueFamilyIndex, commandBuffer>>
       ELSE ForceChangeLayoutAndQueue(newLayout, mCurrentQueueFamilyIndex)

ChangeLayoutAction == \E newLayout \in ImageLayout : ChangeLayout(newLayout)

\* ImageHelper::changeLayoutAndQueue, called as its assertion requires.
ChangeLayoutAndQueue(newLayout, newQueueFamilyIndex) ==
    /\ Len(imageCalls) < MaxImageCalls
    /\ isQueueChangeNeccesary(newQueueFamilyIndex)
    /\ imageCalls' = Append(imageCalls, [op |-> "changeLayoutAndQueue", layout |-> newLayout,
                                         queue |-> newQueueFamilyIndex])
    /\ UnchangedByImage
    /\ ForceChangeLayoutAndQueue(newLayout, newQueueFamilyIndex)

ChangeLayoutAndQueueAction ==
    \E newLayout \in ImageLayout, newQueueFamilyIndex \in QueueFamilies :
        ChangeLayoutAndQueue(newLayout, newQueueFamilyIndex)

\* The image after init (or initExternal) and initMemory (or initExternalMemory).
InitImage ==
    /\ mCurrentLayout \in InitialLayouts
    /\ mCurrentQueueFamilyIndex \in QueueFamilies
    /\ commandBuffer = <<>>
    /\ imageCalls = <<>>

InitI ==
    InitSerials /\ InitBufferIdle /\ InitPoolIdle /\ InitDescriptorIdle /\ InitImage /\ InitStagingIdle

NextImage ==
    \/ ChangeLayoutAction
    \/ ChangeLayoutAndQueueAction

SpecImage == InitI /\ [][NextImage]_vars

\* ================================================================ staged updates
\* ImageHelper's queue of pending subresource updates (mSubresourceUpdates) with its
\* staging allocator mStagingBuffer, which is the DynamicBuffer modelled above.

MaxStaged == 2          \* stage* calls in one run

kMaxParallelSubresourceUpload == 64

\* gl::ImageIndex::kEntireLevel: the layer count of an update to every layer.
kEntireLevel == -1

\* <<mLevelCount, mLayerCount, format>> of the images: fewer subresources than the
\* 64 tracked ones, and more layers than tracked bits.
ImageShapes == {<<2, 3, "depthStencil">>, <<1, 70, "color">>}

\* <<baseArrayLayer, layerCount>> of the updates staged for an image.
UpdateLayerRanges(imageLayerCount) ==
    CASE imageLayerCount = 3  -> {<<0, 1>>, <<1, 2>>}
      [] imageLayerCount = 70 -> {<<2, 1>>, <<66, 2>>, <<0, 64>>}
      [] imageLayerCount = 1  -> {<<0, 1>>}
      [] OTHER -> {}

\* <<layerIndex, layerCount>> of the clears staged for an image.
ClearLayerRanges(imageLayerCount) ==
    CASE imageLayerCount = 3  -> {<<0, 1>>, <<0, kEntireLevel>>}
      [] imageLayerCount = 70 -> {<<2, 1>>, <<0, kEntireLevel>>}
      [] OTHER -> {}

StagedSizes   == {600}

\* The device's answers <<flushOk, createOk, mapOk>> to the fallible calls of one
\* mStagingBuffer.allocate: the call returns at the first failure, so at most one
\* answer is a failure.
AllocateAnswers ==
    {<<TRUE, TRUE, TRUE>>, <<FALSE, TRUE, TRUE>>, <<TRUE, FALSE, TRUE>>, <<TRUE, TRUE, FALSE>>}
SourceLayouts == {"TransferSrc", "ColorAttachment"}

\* The aspects stageSubresourceUpdate enqueues copies for: one copy, or the stencil
\* and then the depth copy when both the image and the data are packed depth/stencil.
StagedAspects ==
    IF mFormat = "color" THEN {<<"color">>} ELSE {<<"stencil", "depth">>}

\* ImageHelper::SubresourceUpdate, by constructor. id numbers the entries in the
\* order of their construction.
BufferUpdate(id, bufferHandleIn, mipLevel, baseArrayLayer, layerCount, aspectMask) ==
    [id |-> id, updateSource |-> "Buffer", mipLevel |-> mipLevel,
     baseArrayLayer |-> baseArrayLayer, layerCount |-> layerCount,
     bufferHandle |-> bufferHandleIn, imageLayout |-> "none", aspectMask |-> aspectMask]

ImageUpdate(id, imageLayoutIn, mipLevel, baseArrayLayer, layerCount) ==
    [id |-> id, updateSource |-> "Image", mipLevel |-> mipLevel,
     baseArrayLayer |-> baseArrayLayer, layerCount |-> layerCount,
     bufferHandle |-> NoBuffer, imageLayout |-> imageLayoutIn, aspectMask |-> "color"]

ClearUpdate(id, levelIndex, layerIndex, layerCount) ==
    [id |-> id, updateSource |-> "Clear", mipLevel |-> levelIndex,
     baseArrayLayer |-> layerIndex, layerCount |-> layerCount,
     bufferHandle |-> NoBuffer, imageLayout |-> "none", aspectMask |-> "none"]

NoWindow == [levelStart |-> 0, levelEnd |-> 0, layerStart |-> 0, layerEnd |-> 0]

IdleStagingRet ==
    [op |-> "none", result |-> "ok", window |-> NoWindow, applied |-> <<>>,
     events |-> <<>>]

\* The id of the k-th entry the current stage* call constructs.
NextUpdateId(k) == 2 * stagedCalls + k

\* The calls that record nothing: commandBuffer holds the commands of the last call.
UnchangedByStaging ==
    /\ UNCHANGED <<poolVars, descVars, mCurrentLayout, mCurrentQueueFamilyIndex, imageCalls,
                   mLevelCount, mLayerCount, mFormat>>
    /\ commandBuffer' = <<>>

\* The callers of the color-only staging functions hand them a color image
\* (ASSERT(getAspectFlags() == VK_IMAGE_ASPECT_COLOR_BIT), or the hard-coded
\* VK_IMAGE_ASPECT_COLOR_BIT of the copy region).
IsColorImage == mFormat = "color"

\* mSubresourceUpdates.emplace_back(...).
EmplacedBack(queue, update) == Append(queue, update)

\* mSubresourceUpdates.emplace(mSubresourceUpdates.begin(), ...).
EmplacedAtBegin_AtBack(queue, update) == Append(queue, update)
EmplacedAtBegin(queue, update) == <<update>> \o queue

\* The stage* calls in one run: one more on the single-layer image, whose runs are
\* followed through the submissions of the device.
StageCallLimit == IF mLayerCount = 1 THEN MaxStaged + 1 ELSE MaxStaged

\* A stage* call begins.
StageCall ==
    /\ Running
    /\ stagedCalls < StageCallLimit
    /\ stagedCalls' = stagedCalls + 1
    /\ UnchangedByStaging

\* ImageHelper::stageSubresourceUpdate. mathOk is the outcome of the pitch
\* computations; aspects are the aspects of the copies the format asks for.
StageSubresourceUpdate(mipLevel, range, aspects, mathOk, size, flushOk, createOk, mapOk) ==
    /\ StageCall
    /\ IF ~mathOk
       THEN /\ stagingRet' = [IdleStagingRet EXCEPT !.op = "stageSubresourceUpdate",
                                                    !.result = "mathFailed"]
            /\ UNCHANGED <<serialVars, bufferVars, mSubresourceUpdates>>
       ELSE /\ Allocate(size, flushOk, createOk, mapOk)
            /\ stagingRet' = [IdleStagingRet EXCEPT !.op = "stageSubresourceUpdate",
                                                    !.result = ret'.result]
            /\ mSubresourceUpdates' =
                 IF ret'.result # "ok" THEN mSubresourceUpdates
                 ELSE LET first == EmplacedBack(mSubresourceUpdates,
                                        BufferUpdate(NextUpdateId(1), ret'.buffer, mipLevel,
                                                     range[1], range[2], aspects[1]))
                      IN  IF Len(aspects) = 1 THEN first
                          ELSE EmplacedBack(first,
                                        BufferUpdate(NextUpdateId(2), ret'.buffer, mipLevel,
                                                     range[1], range[2], aspects[2]))

StageSubresourceUpdateAction ==
    \E mipLevel \in 0..(mLevelCount - 1), range \in UpdateLayerRanges(mLayerCount),
       aspects \in StagedAspects, size \in StagedSizes, mathOk \in BOOLEAN,
       ok \in AllocateAnswers :
        StageSubresourceUpdate(mipLevel, range, aspects, mathOk, size, ok[1], ok[2], ok[3])

\* ImageHelper::stageSubresourceUpdateAndGetData.
StageSubresourceUpdateAndGetData(mipLevel, range, size, flushOk, createOk, mapOk) ==
    /\ StageCall
    /\ IsColorImage
    /\ Allocate(size, flushOk, createOk, mapOk)
    /\ stagingRet' = [IdleStagingRet EXCEPT !.op = "stageSubresourceUpdateAndGetData",
                                            !.result = ret'.result]
    /\ mSubresourceUpdates' =
         IF ret'.result # "ok" THEN mSubresourceUpdates
         ELSE EmplacedBack(mSubresourceUpdates,
                           BufferUpdate(NextUpdateId(1), ret'.buffer, mipLevel,
                                        range[1], range[2], "color"))

StageSubresourceUpdateAndGetDataAction ==
    \E mipLevel \in 0..(mLevelCount - 1), range \in UpdateLayerRanges(mLayerCount),
       size \in StagedSizes, ok \in AllocateAnswers :
        StageSubresourceUpdateAndGetData(mipLevel, range, size, ok[1], ok[2], ok[3])

\* ImageHelper::stageSubresourceUpdateFromFramebuffer. clipOk: the source area
\* intersects the read image; readOk: the outcome of readPixelsImpl.
StageSubresourceUpdateFromFramebuffer(mipLevel, range, clipOk, readOk, size, flushOk, createOk, mapOk) ==
    /\ StageCall
    /\ IsColorImage
    /\ IF ~clipOk
       THEN /\ stagingRet' = [IdleStagingRet EXCEPT
                                 !.op = "stageSubresourceUpdateFromFramebuffer"]
            /\ UNCHANGED <<serialVars, bufferVars, mSubresourceUpdates>>
       ELSE /\ Allocate(size, flushOk, createOk, mapOk)
            /\ stagingRet' = [IdleStagingRet EXCEPT
                                 !.op = "stageSubresourceUpdateFromFramebuffer",
                                 !.result = IF ret'.result # "ok" THEN ret'.result
                                            ELSE IF ~readOk THEN "readPixelsFailed"
                                            ELSE "ok"]
            /\ mSubresourceUpdates' =
                 IF ret'.result # "ok" \/ ~readOk THEN mSubresourceUpdates
                 ELSE EmplacedBack(mSubresourceUpdates,
                                   BufferUpdate(NextUpdateId(1), ret'.buffer, mipLevel,
                                                range[1], range[2], "color"))

StageSubresourceUpdateFromFramebufferAction ==
    \E mipLevel \in 0..(mLevelCount - 1), range \in UpdateLayerRanges(mLayerCount),
       size \in StagedSizes, clipOk, readOk \in BOOLEAN, ok \in AllocateAnswers :
        StageSubresourceUpdateFromFramebuffer(mipLevel, range, clipOk, readOk, size,
                                              ok[1], ok[2], ok[3])

\* ImageHelper::stageSubresourceUpdateFromImage for an image type other than 3D;
\* imageLayout is the current layout of the source image handed over.
StageSubresourceUpdateFromImage(imageLayout, mipLevel, range) ==
    /\ StageCall
    /\ IsColorImage
    /\ stagingRet' = [IdleStagingRet EXCEPT !.op = "stageSubresourceUpdateFromImage"]
    /\ mSubresourceUpdates' =
         EmplacedBack(mSubresourceUpdates,
                      ImageUpdate(NextUpdateId(1), imageLayout, mipLevel, range[1], range[2]))
    /\ UNCHANGED <<serialVars, bufferVars>>

StageSubresourceUpdateFromImageAction ==
    \E imageLayout \in SourceLayouts, mipLevel \in 0..(mLevelCount - 1),
       range \in UpdateLayerRanges(mLayerCount) :
        StageSubresourceUpdateFromImage(imageLayout, mipLevel, range)

\* ImageHelper::stageSubresourceClear (and stageSubresourceRobustClear,
\* stageSubresourceEmulatedClear, which only choose the clear value).
StageSubresourceClear(levelIndex, layerIndex, layerCount) ==
    /\ StageCall
    /\ stagingRet' = [IdleStagingRet EXCEPT !.op = "stageSubresourceClear"]
    /\ mSubresourceUpdates' =
         EmplacedAtBegin(mSubresourceUpdates,
                         ClearUpdate(NextUpdateId(1), levelIndex, layerIndex, layerCount))
    /\ UNCHANGED <<serialVars, bufferVars>>

StageSubresourceClearAction ==
    \E levelIndex \in 0..(mLevelCount - 1), range \in ClearLayerRanges(mLayerCount) :
        StageSubresourceClear(levelIndex, range[1], range[2])

\* SubresourceUpdate::isUpdateToLayerLevel.
isUpdateToLayerLevel(update, layerIndex, levelIndex) ==
    update.baseArrayLayer = layerIndex /\ update.mipLevel = levelIndex

\* SubresourceUpdate::release: an Image update releases and deletes its source image.
ReleaseEvent(update) ==
    [event |-> "release", update |-> update.id, updateSource |-> update.updateSource]

ReleaseEvents(updates) == [i \in DOMAIN updates |-> ReleaseEvent(updates[i])]

\* ImageHelper::removeStagedUpdates.
RemoveStagedUpdates(levelIndex, layerIndex) ==
    LET removed(update) == isUpdateToLayerLevel(update, layerIndex, levelIndex)
        kept(update)    == ~removed(update)
    IN
    /\ Running
    /\ mSubresourceUpdates' = SelectSeq(mSubresourceUpdates, kept)
    /\ stagingRet' = [IdleStagingRet EXCEPT
                         !.op = "removeStagedUpdates",
                         !.events = ReleaseEvents(SelectSeq(mSubresourceUpdates, removed))]
    /\ UNCHANGED <<serialVars, bufferVars, stagedCalls>>
    /\ UnchangedByStaging

RemoveStagedUpdatesAction ==
    \E levelIndex \in 0..(mLevelCount - 1), range \in UpdateLayerRanges(mLayerCount) :
        RemoveStagedUpdates(levelIndex, range[1])

\* ---------------------------------------------------------------- DynamicBuffer teardown

\* The BufferHelpers a DynamicBuffer owns, in the order teardown visits them.
LiveBuffers_WithoutFreeList ==
    mInFlightBuffers \o (IF mBuffer # NoBuffer THEN <<mBuffer>> ELSE <<>>)
LiveBuffers ==
    mInFlightBuffers \o mBufferFreeList \o (IF mBuffer # NoBuffer THEN <<mBuffer>> ELSE <<>>)

\* DynamicBuffer::release (both variants) and DynamicBuffer::destroy: reset(), the
\* two lists are released (or destroyed) and cleared, then the current buffer.
\* Only release(ContextVk) stamps the current buffer with the current serial.
Teardown(op, stampSerial) ==
    /\ Running
    /\ mSize' = 0
    /\ mNextAllocationOffset' = 0
    /\ mLastFlushOrInvalidateOffset' = 0
    /\ buffers' = [i \in DOMAIN buffers |->
                     IF i \notin Range(LiveBuffers) THEN buffers[i]
                     ELSE IF i = mBuffer /\ stampSerial
                     THEN ReleasedBufferHelper([buffers[i] EXCEPT !.serial = currentSerial])
                     ELSE ReleasedBufferHelper(buffers[i])]
    /\ mInFlightBuffers' = <<>>
    /\ mBufferFreeList' = <<>>
    /\ mBuffer' = NoBuffer
    /\ mMapped' = FALSE
    /\ genLog' = <<>>
    /\ ret' = [IdleRet EXCEPT !.op = op]
    /\ BufferConfigUnchanged
    /\ UNCHANGED <<serialVars, mAlignment, allocCalls>>

\* DynamicBuffer::release(ContextVk *).
Release == Teardown("release", TRUE) /\ UnchangedPool

\* DynamicBuffer::release(DisplayVk *, garbageQueue).
ReleaseToDisplay == Teardown("releaseToDisplay", FALSE) /\ UnchangedPool

\* DynamicBuffer::destroy.
Destroy == Teardown("destroy", FALSE) /\ UnchangedPool

\* ---------------------------------------------------------------- flushStagedUpdates

AllBits == 0..(kMaxParallelSubresourceUpload - 1)

\* The bits of angle::Bit<uint64_t>(updateLayerCount) - 1, as bit positions.
SubresourceHashRange_OnlyBaseLayer(updateLayerCount) ==
    IF updateLayerCount > 0 THEN {0} ELSE {}
SubresourceHashRange(updateLayerCount) == 0..(updateLayerCount - 1)

SubresourceHashOffset_IgnoresLevel(updateMipLevel, updateBaseLayer) ==
    updateBaseLayer % kMaxParallelSubresourceUpload
SubresourceHashOffset(updateMipLevel, updateBaseLayer) ==
    (updateMipLevel * mLayerCount + updateBaseLayer) % kMaxParallelSubresourceUpload

\* ANGLE_ROTL64 on a set of bit positions.
ROTL64(bits, shift) == {(b + shift) % 64 : b \in bits}

SubresourceHash(updateMipLevel, updateBaseLayer, updateLayerCount) ==
    ROTL64(SubresourceHashRange(updateLayerCount),
           SubresourceHashOffset(updateMipLevel, updateBaseLayer))

\* The layer count flushStagedUpdates works with.
UpdateLayerCount(update) ==
    IF update.updateSource = "Clear" /\ update.layerCount = kEntireLevel
    THEN mLayerCount
    ELSE update.layerCount

\* isUpdateLevelOutsideRange || areUpdateLayersOutsideRange. The sums stay far
\* below 2^32.
IsOutsideWindow_LevelOnly(update, window) ==
    update.mipLevel < window.levelStart \/ update.mipLevel >= window.levelEnd
IsOutsideWindow(update, window) ==
    \/ update.mipLevel < window.levelStart
    \/ update.mipLevel >= window.levelEnd
    \/ update.baseArrayLayer + UpdateLayerCount(update) <= window.layerStart
    \/ update.baseArrayLayer >= window.layerEnd

\* A fresh TransferDst barrier precedes the update.
NeedsFreshBarrier_WhenAnythingInProgress(updateLayerCount, uploadsInProgress, hash) ==
    \/ updateLayerCount >= kMaxParallelSubresourceUpload
    \/ uploadsInProgress # {}
NeedsFreshBarrier(updateLayerCount, uploadsInProgress, hash) ==
    \/ updateLayerCount >= kMaxParallelSubresourceUpload
    \/ uploadsInProgress \cap hash # {}

\* subresourceUploadsInProgress after the update was accounted for.
UploadsInProgressAfter_NotSaturated(updateLayerCount, uploadsInProgress, hash) ==
    IF updateLayerCount >= kMaxParallelSubresourceUpload THEN {}
    ELSE IF uploadsInProgress \cap hash # {} THEN hash
    ELSE uploadsInProgress \cup hash
UploadsInProgressAfter(updateLayerCount, uploadsInProgress, hash) ==
    IF updateLayerCount >= kMaxParallelSubresourceUpload THEN AllBits
    ELSE IF uploadsInProgress \cap hash # {} THEN hash
    ELSE uploadsInProgress \cup hash

\* What changeLayout(newLayout) records for an image in currentLayout whose queue
\* family stays; image is "this" or "source", update the update being processed
\* (0 at the start of the flush).
LayoutChangeEvents(image, update, currentLayout, newLayout) ==
    IF /\ currentLayout = newLayout
       /\ ~kImageMemoryBarrierData[currentLayout].sameLayoutTransitionRequiresBarrier
    THEN <<>>
    ELSE IF currentLayout = newLayout /\ currentLayout # "TransferDst"
    THEN <<[event |-> "executionBarrier", image |-> image, update |-> update,
            oldLayout |-> currentLayout, newLayout |-> newLayout]>>
    ELSE <<[event |-> "imageBarrier", image |-> image, update |-> update,
            oldLayout |-> currentLayout, newLayout |-> newLayout]>>

\* The Image branch of the loop: the source goes to TransferSrc, the read
\* dependency is added, the copy is recorded.
ImageCopyEvents_CopyBeforeTransition(update, currentLayout) ==
    <<[event |-> "copyImage", update |-> update.id,
       srcLayout |-> update.imageLayout, dstLayout |-> currentLayout]>>
    \o LayoutChangeEvents("source", update.id, update.imageLayout, "TransferSrc")
    \o <<[event |-> "addReadDependency", update |-> update.id]>>
ImageCopyEvents(update, currentLayout) ==
    LayoutChangeEvents("source", update.id, update.imageLayout, "TransferSrc")
    \o <<[event |-> "addReadDependency", update |-> update.id]>>
    \o <<[event |-> "copyImage", update |-> update.id,
          srcLayout |-> "TransferSrc", dstLayout |-> currentLayout]>>

\* What applying one update records; currentLayout is getCurrentLayout().
ApplyEvents(update, currentLayout) ==
    CASE update.updateSource = "Clear" ->
           <<[event |-> "clearImage", update |-> update.id, layout |-> currentLayout,
              mipLevel |-> update.mipLevel, baseArrayLayer |-> update.baseArrayLayer,
              layerCount |-> UpdateLayerCount(update)]>>
      [] update.updateSource = "Buffer" ->
           <<[event |-> "copyBufferToImage", update |-> update.id,
              bufferHandle |-> update.bufferHandle, dstLayout |-> currentLayout]>>
      [] update.updateSource = "Image" -> ImageCopyEvents(update, currentLayout)

\* mCurrentLayout after changeLayout(newLayout): forceChangeLayoutAndQueue stores the
\* new layout; the paths that record nothing or an execution barrier are taken only
\* when the layout is the new one already.
LayoutAfterChange_NotStored(currentLayout, newLayout) == currentLayout
LayoutAfterChange(currentLayout, newLayout) ==
    IF currentLayout = newLayout THEN currentLayout ELSE newLayout

\* getCurrentLayout() inside the loop of flushStagedUpdates: the layout after the
\* changeLayout that precedes the loop.
FlushLayout == LayoutAfterChange(mCurrentLayout, "TransferDst")

\* The loop of flushStagedUpdates over the queue, with the image in TransferDst.
\* done collects the events, the applied updates and updatesToKeep.
RECURSIVE FlushLoop(_, _, _, _)
FlushLoop(updates, window, uploadsInProgress, done) ==
    IF updates = <<>> THEN done
    ELSE LET update == Head(updates)
             count  == UpdateLayerCount(update)
             hash   == SubresourceHash(update.mipLevel, update.baseArrayLayer, count)
         IN
         IF IsOutsideWindow(update, window)
         THEN FlushLoop(Tail(updates), window, uploadsInProgress,
                        [done EXCEPT !.updatesToKeep = Append(@, update)])
         ELSE FlushLoop(Tail(updates), window,
                        UploadsInProgressAfter(count, uploadsInProgress, hash),
                        [done EXCEPT
                           !.events = @ \o (IF NeedsFreshBarrier(count, uploadsInProgress, hash)
                                            THEN LayoutChangeEvents("this", update.id,
                                                                    FlushLayout, "TransferDst")
                                            ELSE <<>>)
                                        \o ApplyEvents(update, FlushLayout)
                                        \o <<ReleaseEvent(update)>>,
                           !.applied = Append(@, update)])

\* The commands among the events of a call.
IsCommand(e) ==
    e.event \in {"imageBarrier", "executionBarrier", "clearImage", "copyBufferToImage",
                 "copyImage"}

\* The buffers after the copies of the applied Buffer updates were recorded in a
\* command buffer that is submitted under the current serial.
ReadByCopies(bufs, applied) ==
    [i \in DOMAIN bufs |->
        IF \E n \in DOMAIN applied :
              applied[n].updateSource = "Buffer" /\ applied[n].bufferHandle = i
        THEN [bufs[i] EXCEPT !.readSerial = currentSerial]
        ELSE bufs[i]]

\* mSubresourceUpdates.empty() at the head of flushStagedUpdates.
NothingStaged_Never == FALSE
NothingStaged == mSubresourceUpdates = <<>>

\* mSubresourceUpdates = std::move(updatesToKeep).
UpdatesAfterFlush_NoneKept(updatesToKeep) == <<>>
UpdatesAfterFlush(updatesToKeep) == updatesToKeep

\* ImageHelper::flushStagedUpdates for the window [levelStart, levelEnd) x
\* [layerStart, layerEnd); syncOk is the device's answer to mStagingBuffer.flush.
\* commandBuffer is the command buffer handed to the call, empty before it.
FlushStagedUpdates(op, window, syncOk) ==
    LET base  == [IdleStagingRet EXCEPT !.op = op, !.window = window]
        start == LayoutChangeEvents("this", 0, mCurrentLayout, "TransferDst")
        done  == FlushLoop(mSubresourceUpdates, window, {},
                           [events |-> start, applied |-> <<>>, updatesToKeep |-> <<>>])
        kept  == UpdatesAfterFlush(done.updatesToKeep)
        read  == ReadByCopies(buffers, done.applied)
    IN
    /\ Running
    /\ UNCHANGED <<poolVars, descVars, mLevelCount, mLayerCount, mFormat, stagedCalls,
                   imageCalls, mCurrentQueueFamilyIndex, serialVars, mAlignment, allocCalls, mBuffer,
                   mMapped, mNextAllocationOffset, mSize, genLog>>
    /\ BufferConfigUnchanged
    /\ IF NothingStaged
       THEN /\ stagingRet' = base
            /\ commandBuffer' = <<>>
            /\ UNCHANGED <<mCurrentLayout, mSubresourceUpdates, ret,
                           mLastFlushOrInvalidateOffset, mInFlightBuffers, mBufferFreeList,
                           buffers>>
       ELSE IF HasUnsyncedRange /\ mBuffer = NoBuffer
       THEN \* ASSERT(mBuffer != nullptr) of DynamicBuffer::flush fails
            /\ stagingRet' = [base EXCEPT !.result = "nullDeref"]
            /\ ret' = [IdleRet EXCEPT !.op = "flush", !.result = "nullDeref"]
            /\ commandBuffer' = <<>>
            /\ UNCHANGED <<mCurrentLayout, mSubresourceUpdates,
                           mLastFlushOrInvalidateOffset, mInFlightBuffers, mBufferFreeList,
                           buffers>>
       ELSE IF HasUnsyncedRange /\ ~syncOk
       THEN \* ANGLE_TRY(mStagingBuffer.flush(contextVk)) returns
            /\ stagingRet' = [base EXCEPT !.result = "flushFailed"]
            /\ ret' = [IdleRet EXCEPT !.op = "flush", !.result = "syncFailed"]
            /\ commandBuffer' = <<>>
            /\ UNCHANGED <<mCurrentLayout, mSubresourceUpdates,
                           mLastFlushOrInvalidateOffset, mInFlightBuffers, mBufferFreeList,
                           buffers>>
       ELSE /\ mLastFlushOrInvalidateOffset' =
                   IF HasUnsyncedRange THEN WatermarkAfterSync
                   ELSE mLastFlushOrInvalidateOffset
            /\ stagingRet' = [base EXCEPT !.applied = done.applied, !.events = done.events]
            /\ commandBuffer' = SelectSeq(done.events, IsCommand)
            /\ mCurrentLayout' = FlushLayout
            /\ mSubresourceUpdates' = kept
            /\ IF kept = <<>>
               THEN \* mStagingBuffer.releaseInFlightBuffers(contextVk)
                    /\ mBufferFreeList' =
                          mBufferFreeList \o
                          SelectSeq(mInFlightBuffers, LAMBDA b : IsReusable(buffers[b]))
                    /\ buffers' = [i \in DOMAIN buffers |->
                                     IF i \in Range(mInFlightBuffers) /\ ~IsReusable(buffers[i])
                                     THEN ReleasedBufferHelper(read[i])
                                     ELSE read[i]]
                    /\ mInFlightBuffers' = <<>>
                    /\ ret' = [IdleRet EXCEPT !.op = "releaseInFlightBuffers"]
               ELSE /\ ret' = IF HasUnsyncedRange
                              THEN [IdleRet EXCEPT
                                      !.op = "flush", !.buffer = mBuffer,
                                      !.syncOffset = mLastFlushOrInvalidateOffset,
                                      !.syncSize = mNextAllocationOffset -
                                                   mLastFlushOrInvalidateOffset]
                              ELSE [IdleRet EXCEPT !.op = "flush"]
                    /\ buffers' = read
                    /\ UNCHANGED <<mInFlightBuffers, mBufferFreeList>>

Window(levelStart, levelEnd, layerStart, layerEnd) ==
    [levelStart |-> levelStart, levelEnd |-> levelEnd,
     layerStart |-> layerStart, layerEnd |-> layerEnd]

\* The windows flushStagedUpdates is called with: the whole image; the first level
\* and the other levels of an image with several levels; the first layer and the
\* other layers of an image with one level.
FlushWindows ==
    {Window(0, mLevelCount, 0, mLayerCount)} \cup
    (IF mLevelCount > 1
     THEN {Window(0, 1, 0, mLayerCount), Window(1, mLevelCount, 0, mLayerCount)}
     ELSE {Window(0, mLevelCount, 0, 1), Window(0, mLevelCount, 1, mLayerCount)})

FlushStagedUpdatesAction ==
    \E window \in FlushWindows, syncOk \in BOOLEAN :
        FlushStagedUpdates("flushStagedUpdates", window, syncOk)

\* ImageHelper::flushAllStagedUpdates; recordOk is the outcome of recordCommands.
FlushAllStagedUpdates(recordOk, syncOk) ==
    IF ~recordOk
    THEN /\ Running
         /\ stagingRet' = [IdleStagingRet EXCEPT !.op = "flushAllStagedUpdates",
                                                 !.result = "recordCommandsFailed"]
         /\ UNCHANGED <<serialVars, bufferVars, mSubresourceUpdates, stagedCalls>>
         /\ UnchangedByStaging
    ELSE FlushStagedUpdates("flushStagedUpdates", Window(0, mLevelCount, 0, mLayerCount),
                            syncOk)

FlushAllStagedUpdatesAction ==
    \E recordOk, syncOk \in BOOLEAN : FlushAllStagedUpdates(recordOk, syncOk)

\* ImageHelper::releaseStagingBuffer (both variants): every queued update is
\* released, the staging allocator is released, the queue is cleared.
ReleaseStagingBuffer(op, stampSerial) ==
    /\ Teardown(op, stampSerial)
    /\ stagingRet' = [IdleStagingRet EXCEPT !.op = op,
                                            !.events = ReleaseEvents(mSubresourceUpdates)]
    /\ mSubresourceUpdates' = <<>>
    /\ UNCHANGED stagedCalls
    /\ UnchangedByStaging

ReleaseStagingBufferAction == ReleaseStagingBuffer("release", TRUE)

ReleaseStagingBufferToDisplayAction == ReleaseStagingBuffer("releaseToDisplay", FALSE)

\* The image after init and initStagingBuffer: the staging allocator is a
\* host-visible DynamicBuffer, nothing is staged.
InitStaging ==
    /\ \E shape \in ImageShapes :
           mLevelCount = shape[1] /\ mLayerCount = shape[2] /\ mFormat = shape[3]
    /\ mSubresourceUpdates = <<>>
    /\ stagedCalls = 0
    /\ stagingRet = IdleStagingRet
    /\ mCurrentLayout = "Undefined"
    /\ mCurrentQueueFamilyIndex = 0
    /\ commandBuffer = <<>>
    /\ imageCalls = <<>>
    /\ InitBuffer
    /\ mHostVisible
    /\ mAlignment = 4

InitS == InitSerials /\ InitStaging /\ InitPoolIdle /\ InitDescriptorIdle

NextStaging ==
    \/ StageSubresourceUpdateAction
    \/ StageSubresourceUpdateAndGetDataAction
    \/ StageSubresourceUpdateFromFramebufferAction
    \/ StageSubresourceUpdateFromImageAction
    \/ StageSubresourceClearAction
    \/ RemoveStagedUpdatesAction
    \/ FlushStagedUpdatesAction
    \/ FlushAllStagedUpdatesAction
    \/ ReleaseStagingBufferAction
    \/ ReleaseStagingBufferToDisplayAction

SpecStaging == InitS /\ [][NextStaging]_vars

\* ---------------------------------------------------------------- teardown
\* A DynamicBuffer on its own (mLevelCount = 0: no image) with its teardown calls,
\* or an image whose staging allocator is torn down by releaseStagingBuffer.

IsStandaloneBuffer == mLevelCount = 0

\* The DynamicBuffer on its own: device-local memory, so there is nothing to flush.
InitStandaloneBuffer == InitB /\ ~mHostVisible /\ mAlignment = 4

InitT ==
    \/ InitStandaloneBuffer
    \/ InitS

NextTeardown ==
    \/ IsStandaloneBuffer /\ AllocateAction
    \/ IsStandaloneBuffer /\ ReleaseInFlightBuffers
    \/ IsStandaloneBuffer /\ SerialStepForBuffer
    \/ IsStandaloneBuffer /\ Release
    \/ IsStandaloneBuffer /\ ReleaseToDisplay
    \/ IsStandaloneBuffer /\ Destroy
    \/ ~IsStandaloneBuffer /\ NextStaging

SpecTeardown == InitT /\ [][NextTeardown]_vars

\* ---------------------------------------------------------------- allocation without waiting
\* Either the DynamicBuffer or the entry pool runs, each with the device's serials.

IsPoolRun == mPoolSize > 0

InitA ==
    \/ InitB
    \/ InitP

NextAllocation ==
    \/ ~IsPoolRun /\ AllocateAction
    \/ ~IsPoolRun /\ ReleaseInFlightBuffers
    \/ ~IsPoolRun /\ SerialStepForBuffer
    \/ IsPoolRun /\ AllocateEntryAction
    \/ IsPoolRun /\ FreeEntryAction
    \/ IsPoolRun /\ SerialStepForPool

SpecAllocation == InitA /\ [][NextAllocation]_vars

\* ---------------------------------------------------------------- alignment changes
\* A device-local DynamicBuffer whose users change the alignment between allocations.

\* Powers of two and three times a power of two (3-component formats).
AlignmentRequests == {1, 2, 4, 8, 16, 3, 6, 12, 24, 48}
AlignmentAtomSizes == {1, 4, 8, 32}

InitAlignment ==
    /\ InitSerials /\ InitPoolIdle /\ InitDescriptorIdle /\ InitImageIdle /\ InitStagingIdle
    /\ nonCoherentAtomSize \in AlignmentAtomSizes
    /\ mHostVisible = FALSE
    /\ mInitialSize \in InitialSizes
    /\ mBuffer = NoBuffer
    /\ mMapped = FALSE
    /\ mNextAllocationOffset = 0
    /\ mLastFlushOrInvalidateOffset = 0
    /\ mSize = 0
    /\ \E alignment \in AlignmentRequests :
           mAlignment = UpdatedAlignment(alignment, nonCoherentAtomSize)
    /\ mInFlightBuffers = <<>>
    /\ mBufferFreeList = <<>>
    /\ buffers = <<>>
    /\ ret = IdleRet
    /\ genLog = <<>>
    /\ allocCalls = 0

UpdateAlignmentStep == \E alignment \in AlignmentRequests : UpdateAlignment(alignment)

\* The first allocation of the buffer, so that updateAlignment has an offset to align.
FirstAllocation ==
    /\ allocCalls = 0
    /\ \E sizeInBytes \in AllocSizes, createOk \in BOOLEAN :
           Allocate(sizeInBytes, TRUE, createOk, TRUE)
    /\ UnchangedPool

NextAlignment ==
    \/ UpdateAlignmentStep
    \/ FirstAllocation

SpecAlignment == InitAlignment /\ [][NextAlignment]_vars

\* ---------------------------------------------------------------- testing hook
\* A device-local DynamicBuffer whose test changes the minimum size between calls.

MinimumSizes == {512, 2048}

\* DynamicBuffer::setMinimumSizeForTesting.
SetMinimumSizeForTesting(minSize) ==
    /\ Running
    /\ mInitialSize' = minSize
    /\ mSize' = 0
    /\ ret' = [IdleRet EXCEPT !.op = "setMinimumSizeForTesting"]
    /\ UNCHANGED <<serialVars, nonCoherentAtomSize, mHostVisible, mBuffer, mMapped,
                   mNextAllocationOffset, mLastFlushOrInvalidateOffset, mAlignment,
                   mInFlightBuffers, mBufferFreeList, buffers, genLog, allocCalls>>
    /\ UnchangedPool

SetMinimumSizeForTestingAction ==
    \E minSize \in MinimumSizes : SetMinimumSizeForTesting(minSize)

NextTesting ==
    \/ AllocateAction
    \/ ReleaseInFlightBuffers
    \/ SetMinimumSizeForTestingAction
    \/ SerialStepForBuffer

SpecTesting == InitStandaloneBuffer /\ [][NextTesting]_vars

\* ---------------------------------------------------------------- staging and the device
\* A single-layer color image whose updates are staged and flushed while the context
\* submits command buffers and the device completes them.

SubmittedImageShape == <<1, 1, "color">>

InitSubmitted ==
    /\ InitSerials /\ InitPoolIdle /\ InitDescriptorIdle
    /\ mLevelCount = SubmittedImageShape[1]
    /\ mLayerCount = SubmittedImageShape[2]
    /\ mFormat = SubmittedImageShape[3]
    /\ mSubresourceUpdates = <<>>
    /\ stagedCalls = 0
    /\ stagingRet = IdleStagingRet
    /\ mCurrentLayout = "Undefined"
    /\ mCurrentQueueFamilyIndex = 0
    /\ commandBuffer = <<>>
    /\ imageCalls = <<>>
    /\ InitBuffer
    /\ mHostVisible
    /\ mAlignment = 4

\* The context submits its commands or the device completes a submission; the
\* commands recorded so far are the ones of the serial that was current.
SerialStepForStaging ==
    /\ Running
    /\ SubmitCommands \/ CompleteSerial
    /\ UNCHANGED <<bufferVars, poolVars, descVars, imageVars, stagingVars>>

NextSubmitted ==
    \/ StageSubresourceUpdateAndGetDataAction
    \/ FlushAllStagedUpdatesAction
    \/ SerialStepForStaging

SpecSubmitted == InitSubmitted /\ [][NextSubmitted]_vars

\* ================================================================ claims
\* ---------------------------------------------------------------- C1

\* The suballocations of the current generation, in the order they were handed out.
GenPairs == {p \in (DOMAIN genLog) \X (DOMAIN genLog) : p[1] < p[2]}

\* C1 as stated: within one backing-buffer generation the offsets returned by
\* successive allocate calls are strictly increasing, the byte ranges
\* [offset, offset + roundUp(size, alignment)) do not overlap, and every offset is a
\* multiple of the configured alignment.
C1_AsStated ==
    /\ \A p \in GenPairs :
          /\ genLog[p[1]].offset < genLog[p[2]].offset
          /\ genLog[p[1]].offset + genLog[p[1]].size <= genLog[p[2]].offset
    /\ \A i \in DOMAIN genLog : genLog[i].offset % genLog[i].alignment = 0

\* C1 amended: within one generation the returned offsets never decrease, each
\* suballocation starts at or after the end of every earlier one (so the byte ranges
\* do not overlap), the offset is strictly greater than that of every earlier
\* suballocation of non-zero size, and every offset is a multiple of the alignment.
\* A zero-size request returns the current offset without advancing it, so the next
\* request is handed the same offset.
C1_OffsetsWithinGeneration ==
    /\ \A p \in GenPairs :
          /\ genLog[p[1]].offset <= genLog[p[2]].offset
          /\ genLog[p[1]].offset + genLog[p[1]].size <= genLog[p[2]].offset
          /\ genLog[p[1]].size > 0 => genLog[p[1]].offset < genLog[p[2]].offset
    /\ \A i \in DOMAIN genLog :
          /\ genLog[i].offset % genLog[i].alignment = 0
          /\ genLog[i].buffer = mBuffer

\* Three suballocations of one generation, the last two of non-zero size.
C1_Witness ==
    /\ Len(genLog) = 3
    /\ genLog[2].size > 0
    /\ genLog[3].size > 0
    /\ genLog[3].offset > genLog[2].offset

\* ---------------------------------------------------------------- C2

\* A step of DynamicBuffer::allocate (the only handler that counts allocCalls).
AllocateStep == allocCalls' = allocCalls + 1

\* An allocate step that selected a new current generation.
SelectsNewGeneration ==
    AllocateStep /\ ret'.newBuffer /\ ret'.result \in {"ok", "mapFailed"}

\* C2: when allocate selects a new current generation it takes the front of the free
\* list only if that buffer's stamped serial is retired, and creates a fresh buffer
\* when the free list is empty or its front is still in use; in every state the
\* current generation's stamped serial is retired.
C2_ReuseOnlyRetired ==
    [][/\ SelectsNewGeneration =>
            /\ mBuffer' <= Len(buffers) =>
                  /\ mBufferFreeList # <<>>
                  /\ mBuffer' = Head(mBufferFreeList)
                  /\ ~isSerialInUse(buffers[mBuffer'].serial)
                  /\ mBufferFreeList' = Tail(mBufferFreeList)
            /\ (mBufferFreeList = <<>> \/ isSerialInUse(buffers[Head(mBufferFreeList)].serial))
                  => /\ mBuffer' = Len(buffers) + 1
                     /\ Len(buffers') = Len(buffers) + 1
       /\ mBuffer' # NoBuffer => ~isSerialInUse(buffers'[mBuffer'].serial)
      ]_vars

\* Buffer 1 was retired with a serial stamp, recycled, and is the current generation
\* again after the device completed that serial.
C2_Witness ==
    /\ ret.op = "allocate" /\ ret.result = "ok" /\ ret.newBuffer
    /\ mBuffer = 1
    /\ Len(buffers) = 2
    /\ buffers[1].serial > 0

\* ---------------------------------------------------------------- C3

\* The allocator's bookkeeping.
allocatorState == <<mBuffer, mInFlightBuffers, mBufferFreeList, mSize,
                    mNextAllocationOffset, mLastFlushOrInvalidateOffset>>

\* C3 as stated: when backing-buffer creation fails inside allocate, the allocator's
\* state (current generation, in-flight list, free list, target capacity, allocation
\* offset and flush watermark) is identical to its state before the call.
C3_FailedCreationChangesNothing ==
    [][(AllocateStep /\ ret'.result = "createFailed") => UNCHANGED allocatorState]_vars

\* ---------------------------------------------------------------- C4

\* C4: the target capacity never shrinks, and every generation a successful allocate
\* returns has a capacity of at least the target capacity; so after a growth event no
\* later allocate returns a generation smaller than the new target.
C4_NoUndersizedGeneration ==
    [][/\ mSize' >= mSize
       /\ (AllocateStep /\ ret'.result = "ok") =>
            /\ ret'.buffer = mBuffer'
            /\ ~buffers'[mBuffer'].released
            /\ buffers'[mBuffer'].capacity >= mSize'
      ]_vars

\* The target grew from 1024 to 2000, releaseInFlightBuffers dropped the 1024-byte
\* generation, and a later allocate selected another generation.
C4_Witness ==
    /\ allocCalls = 3
    /\ ret.op = "allocate" /\ ret.result = "ok" /\ ret.newBuffer
    /\ buffers[1].capacity = 1024 /\ buffers[1].released
    /\ mSize = 2000
    /\ buffers[mBuffer].capacity = 2000

\* ---------------------------------------------------------------- C5

\* C5 as stated: releaseInFlightBuffers takes out of the in-flight list only the
\* generations whose stamped serial is retired; a generation whose serial is not yet
\* retired stays in the in-flight list.
C5_AsStated ==
    [][ReleaseInFlightBuffers =>
          \A b \in Range(mInFlightBuffers) :
              isResourceInUse(buffers[b]) => b \in Range(mInFlightBuffers')]_vars

\* C5 amended: releaseInFlightBuffers recycles or releases every in-flight generation
\* whether or not its stamped serial is retired (each goes to the free list or is
\* released, and the in-flight list is left empty); the serial is checked when
\* allocate takes a generation from the free list, which happens only once its
\* stamped serial is retired.
C5_SerialCheckedAtReuse ==
    [][/\ ReleaseInFlightBuffers =>
            /\ mInFlightBuffers' = <<>>
            /\ \A b \in Range(mInFlightBuffers) :
                  b \in Range(mBufferFreeList') \/ buffers'[b].released
       /\ (SelectsNewGeneration /\ mBuffer' <= Len(buffers)) =>
            /\ mBuffer' \in Range(mBufferFreeList)
            /\ ~isResourceInUse(buffers[mBuffer'])
      ]_vars

\* releaseInFlightBuffers has just moved a generation whose serial the device has not
\* completed to the free list.
C5_Witness ==
    /\ ret.op = "releaseInFlightBuffers"
    /\ mInFlightBuffers = <<>>
    /\ \E b \in Range(mBufferFreeList) : isResourceInUse(buffers[b])

\* ---------------------------------------------------------------- C6

\* C6: releaseInFlightBuffers moves an in-flight generation to the free list if and
\* only if its capacity is >= the target capacity and releases it otherwise; it leaves
\* the in-flight list empty; a released generation stays released and is never the
\* current generation, nor in the free list or the in-flight list, again.
C6_RecycleIffLargeEnough ==
    [][/\ ReleaseInFlightBuffers =>
            /\ \A b \in Range(mInFlightBuffers) :
                  /\ (b \in Range(mBufferFreeList')) <=> (buffers[b].capacity >= mSize)
                  /\ buffers'[b].released <=> (buffers[b].capacity < mSize)
            /\ mInFlightBuffers' = <<>>
       /\ \A i \in DOMAIN buffers :
             buffers[i].released =>
                /\ buffers'[i].released
                /\ mBuffer' # i
                /\ i \notin Range(mBufferFreeList')
                /\ i \notin Range(mInFlightBuffers')
      ]_vars

\* One call released the undersized generation 1 and recycled generation 2.
C6_Witness ==
    /\ ret.op = "releaseInFlightBuffers"
    /\ Len(buffers) = 3
    /\ buffers[1].released /\ buffers[1].capacity < mSize
    /\ mBufferFreeList = <<2>>
    /\ mInFlightBuffers = <<>>

\* ---------------------------------------------------------------- C7

\* C7 as stated: a request that still fits the current generation (offset + rounded
\* size <= capacity, exact fill included) is served from the current generation and
\* reports newBufferAllocated = false. (Stated for requests of non-zero size.)
C7_FittingRequestServedFromCurrent ==
    [][(/\ AllocateStep
        /\ mBuffer # NoBuffer
        /\ ret'.size > 0
        /\ mNextAllocationOffset + ret'.size <= buffers[mBuffer].capacity)
       => /\ ~ret'.newBuffer
          /\ mBuffer' = mBuffer
          /\ ret'.result = "ok" => ret'.offset = mNextAllocationOffset
      ]_vars

\* ---------------------------------------------------------------- C8

\* C8: a successful allocate whose rounded size exceeds the target capacity sets the
\* target to max(initialSize, roundedSize), releases and discards the whole free list,
\* appends the previous current generation to the in-flight list stamped with the
\* current submission serial, and returns offset 0 in a fresh generation of the new
\* target capacity.
C8_GrowthEvent ==
    [][(AllocateStep /\ ret'.size > mSize /\ ret'.result = "ok") =>
          /\ mSize' = Max(mInitialSize, ret'.size)
          /\ mBufferFreeList' = <<>>
          /\ \A b \in Range(mBufferFreeList) : buffers'[b].released
          /\ mBuffer # NoBuffer =>
                /\ mInFlightBuffers' = Append(mInFlightBuffers, mBuffer)
                /\ buffers'[mBuffer].serial = currentSerial
          /\ mBuffer = NoBuffer => mInFlightBuffers' = mInFlightBuffers
          /\ ret'.newBuffer
          /\ ret'.offset = 0
          /\ mBuffer' = Len(buffers) + 1
          /\ buffers'[mBuffer'].capacity = mSize'
          /\ mNextAllocationOffset' = ret'.size
      ]_vars

\* Alignment 4, initial capacity 1024: allocate(100) was served at offset 0 of
\* generation 1 (the retirement flushed its 100 bytes), then allocate(2000) grew the
\* target to 2000 and returned offset 0 of generation 2; generation 1 is in flight.
C8_Witness ==
    /\ mAlignment = 4 /\ mInitialSize = 1024 /\ mHostVisible
    /\ allocCalls = 2
    /\ ret.op = "allocate" /\ ret.result = "ok" /\ ret.newBuffer
    /\ ret.size = 2000 /\ ret.offset = 0 /\ ret.buffer = 2
    /\ ret.syncOffset = 0 /\ ret.syncSize = 100
    /\ mSize = 2000
    /\ buffers[1].capacity = 1024 /\ buffers[2].capacity = 2000
    /\ mInFlightBuffers = <<1>>
    /\ buffers[1].serial = currentSerial

\* ---------------------------------------------------------------- C9

\* A successful step of flush or invalidate.
SyncStep == (Flush \/ Invalidate) /\ ret'.result = "ok"

\* C9: on a host-visible allocator a successful flush (or invalidate) synchronizes
\* exactly [mLastFlushOrInvalidateOffset, mNextAllocationOffset) and moves the
\* watermark to mNextAllocationOffset, changing nothing else; a flush that directly
\* follows a successful flush synchronizes nothing and changes no state.
C9_FlushIdempotent ==
    [][(SyncStep /\ mHostVisible) =>
          /\ ret'.syncSize = mNextAllocationOffset - mLastFlushOrInvalidateOffset
          /\ ret'.syncSize > 0 => ret'.syncOffset = mLastFlushOrInvalidateOffset
          /\ mLastFlushOrInvalidateOffset' = mNextAllocationOffset
          /\ UNCHANGED <<mBuffer, mInFlightBuffers, mBufferFreeList, mSize,
                         mNextAllocationOffset, buffers>>
          /\ (ret.op \in {"flush", "invalidate"} /\ ret.result = "ok") =>
                /\ ret'.syncSize = 0
                /\ UNCHANGED allocatorState
      ]_vars

\* After a single allocate of 100 bytes the range [0, 100) has been synchronized and
\* a further flush found nothing left to synchronize.
C9_Witness ==
    /\ mHostVisible
    /\ allocCalls = 1
    /\ mNextAllocationOffset = 100
    /\ mLastFlushOrInvalidateOffset = 100
    /\ ret.op = "flush" /\ ret.result = "ok" /\ ret.syncSize = 0

\* ---------------------------------------------------------------- C10

\* A step of pool allocation (the only handler that counts poolCalls).
AllocateEntryStep == poolCalls' = poolCalls + 1

\* Pool i is reset by the step: findFreeEntryPool selected it, or its freedCount
\* dropped.
PoolReset(i) ==
    \/ AllocateEntryStep /\ poolRet'.reused /\ poolRet'.pool = i
    \/ mPoolStats'[i].freedCount < mPoolStats[i].freedCount

\* C10: a pool is reset as reuse target (next entry and freedCount back to 0) only
\* when its freedCount equals the pool capacity and its last-free serial is <= the
\* last completed serial; a pool with an un-freed slot is never reset.
C10_ResetOnlyWhenIdle ==
    [][\A i \in DOMAIN mPoolStats :
          PoolReset(i) =>
             /\ mPoolStats[i].freedCount = mPoolSize
             /\ mPoolStats[i].serial <= lastCompletedSerial
             /\ \A e \in issued : e[1] # i
             /\ mPoolStats'[i].freedCount = 0
             /\ mCurrentPool' = i
             /\ mCurrentFreeEntry' = 1
      ]_vars

\* A pool whose entries were all freed under a serial the device has completed was
\* reset and handed out its first entry again.
C10_Witness ==
    /\ poolRet.op = "allocate" /\ poolRet.result = "ok" /\ poolRet.reused
    /\ poolRet.slot = 0
    /\ mPoolStats[poolRet.pool].serial > 0
    /\ mPoolStats[poolRet.pool].serial <= lastCompletedSerial

\* ---------------------------------------------------------------- C11

\* C11: every slot index a successful pool allocation returns is < the pool capacity,
\* the (pool, slot) pair it returns is not outstanding (issued and not yet freed)
\* at the time of the call, and every outstanding slot index is < the capacity.
C11_SlotInRangeAndNotOutstanding ==
    [][/\ (AllocateEntryStep /\ poolRet'.result = "ok") =>
             /\ poolRet'.slot < mPoolSize
             /\ <<poolRet'.pool, poolRet'.slot>> \notin issued
             /\ issued' = issued \cup {<<poolRet'.pool, poolRet'.slot>>}
       /\ \A e \in issued' : e[2] >= 0 /\ e[2] < mPoolSize'
      ]_vars

\* The only pool (capacity 2) was used up, freed, reset, and has handed out its
\* second slot a second time.
C11_Witness ==
    /\ mPoolSize = 2
    /\ Len(mPoolStats) = 1
    /\ poolCalls = 4
    /\ poolRet.op = "allocate" /\ poolRet.result = "ok"
    /\ poolRet.pool = 1 /\ poolRet.slot = 1
    /\ issued = {<<1, 1>>}

\* ---------------------------------------------------------------- C12

\* Pool i has all its entries freed under a serial the device has completed.
Qualifies(i) ==
    /\ mPoolStats[i].freedCount = mPoolSize
    /\ mPoolStats[i].serial <= lastCompletedSerial

\* C12: when the current pool is exhausted and some existing pool has
\* freedCount == capacity and a retired last-free serial, the allocation succeeds,
\* hands out slot 0 of the first such pool and adds no pool; a pool is added (or its
\* creation attempted) only when the current pool is exhausted and no pool qualifies.
C12_ReuseBeforeCreate ==
    [][AllocateEntryStep =>
          /\ (mCurrentFreeEntry >= mPoolSize /\ \E i \in DOMAIN mPoolStats : Qualifies(i)) =>
                /\ poolRet'.result = "ok"
                /\ poolRet'.reused /\ ~poolRet'.created
                /\ Qualifies(poolRet'.pool)
                /\ \A j \in DOMAIN mPoolStats : Qualifies(j) => poolRet'.pool <= j
                /\ poolRet'.slot = 0
                /\ mCurrentPool' = poolRet'.pool
                /\ Len(mPoolStats') = Len(mPoolStats)
          /\ (Len(mPoolStats') # Len(mPoolStats) \/ poolRet'.created
              \/ poolRet'.result = "createFailed") =>
                /\ mCurrentFreeEntry >= mPoolSize
                /\ \A i \in DOMAIN mPoolStats : ~Qualifies(i)
                /\ Len(mPoolStats') = Len(mPoolStats) + (IF poolRet'.created THEN 1 ELSE 0)
      ]_vars

\* With pool 2 current and used up, the allocation went back to pool 1, whose
\* entries were all freed under a completed serial; no third pool exists.
C12_Witness ==
    /\ Len(mPoolStats) = 2
    /\ poolRet.op = "allocate" /\ poolRet.result = "ok"
    /\ poolRet.reused /\ ~poolRet.created
    /\ poolRet.pool = 1 /\ poolRet.slot = 0
    /\ mCurrentPool = 1

\* ---------------------------------------------------------------- C13

\* C13: freeing an entry of pool p adds exactly one to pool p's freedCount and sets
\* pool p's last-free serial to the current submission serial; the statistics of the
\* other pools, the number of pools, the current pool, the next free entry and the
\* capacity are unchanged.
C13_FreeTouchesOnlyItsPool ==
    [][FreeEntryAction =>
          /\ poolRet'.pool \in DOMAIN mPoolStats
          /\ mPoolStats'[poolRet'.pool].freedCount = mPoolStats[poolRet'.pool].freedCount + 1
          /\ mPoolStats'[poolRet'.pool].serial = currentSerial
          /\ DOMAIN mPoolStats' = DOMAIN mPoolStats
          /\ \A i \in DOMAIN mPoolStats : i # poolRet'.pool => mPoolStats'[i] = mPoolStats[i]
          /\ UNCHANGED <<mCurrentPool, mCurrentFreeEntry, mPoolSize, serialVars>>
      ]_vars

\* An entry of pool 2 was freed under serial 2 while pool 1 keeps the stamp of an
\* earlier free under serial 1.
C13_Witness ==
    /\ poolRet.op = "free" /\ poolRet.pool = 2
    /\ Len(mPoolStats) = 2
    /\ currentSerial = 2
    /\ mPoolStats[2].serial = 2 /\ mPoolStats[2].freedCount = 1
    /\ mPoolStats[1].serial = 1 /\ mPoolStats[1].freedCount >= 1

\* ---------------------------------------------------------------- C14

\* The entries of pool i that are handed out and not freed.
Outstanding(i) == {e \in issued : e[1] = i}

\* The number of entries pool i handed out since it was created or last reset: the
\* pools other than the current one were used up before the manager left them.
HandedOut(i) == IF i = mCurrentPool THEN mCurrentFreeEntry ELSE mPoolSize

\* C14: in every reachable state each pool's freedCount is <= the capacity and equals
\* the number of entries handed out since the pool's last reset minus the entries
\* still outstanding (so it never exceeds the number handed out); a pool with an
\* outstanding entry has freedCount < capacity, so the assertion at the start of
\* onEntryFreed holds for every free of an outstanding entry.
C14_FreedCountBounded ==
    \A i \in DOMAIN mPoolStats :
        /\ mPoolStats[i].freedCount >= 0
        /\ mPoolStats[i].freedCount <= mPoolSize
        /\ mPoolStats[i].freedCount + Cardinality(Outstanding(i)) = HandedOut(i)
        /\ Outstanding(i) # {} => mPoolStats[i].freedCount < mPoolSize

\* Pool 1 (capacity 2) has been freed completely, reset and is handing out entries
\* again; pool 2 is fully freed.
C14_Witness ==
    /\ mPoolSize = 2
    /\ Len(mPoolStats) = 2
    /\ mCurrentPool = 1 /\ mCurrentFreeEntry = 1
    /\ mPoolStats[1].freedCount = 0 /\ Outstanding(1) = {<<1, 0>>}
    /\ mPoolStats[2].freedCount = 2
    /\ poolRet.op = "free"

\* ---------------------------------------------------------------- C15

\* A step of allocateSetsAndGetInfo (the only handler that counts descCalls).
AllocateSetsStep == descCalls' = descCalls + 1

\* The bound pool of the calling site can serve the request.
BoundPoolServes ==
    /\ bindings[descRet'.site] # 0
    /\ mDescriptorPools[bindings[descRet'.site]].free >= descRet'.count

\* C15: allocateSetsAndGetInfo takes the sets from the pool the calling site is bound
\* to whenever the binding is valid and that pool has capacity for the request,
\* whichever pool is the manager's current one, and then changes neither the binding,
\* the current pool, the pool list's length nor any stamped serial. Only when the
\* binding is not valid or its pool lacks capacity does the site end up bound to the
\* manager's current pool, and then the pool it was bound to before is stamped with
\* the current submission serial and loses the site's reference.
C15_BindingReusedWhileCapacity ==
    [][AllocateSetsStep =>
         LET site == descRet'.site
             old  == bindings[site]
         IN
         /\ BoundPoolServes =>
               /\ descRet'.result \in {"ok", "allocFailed"}
               /\ descRet'.pool = old /\ ~descRet'.rebound /\ ~descRet'.newPool
               /\ bindings' = bindings
               /\ mCurrentPoolIndex' = mCurrentPoolIndex
               /\ Len(mDescriptorPools') = Len(mDescriptorPools)
               /\ mDescriptorPools'[old].free = mDescriptorPools[old].free - descRet'.count
               /\ \A i \in DOMAIN mDescriptorPools :
                     /\ mDescriptorPools'[i].serial = mDescriptorPools[i].serial
                     /\ mDescriptorPools'[i].refCount = mDescriptorPools[i].refCount
                     /\ mDescriptorPools'[i].inits = mDescriptorPools[i].inits
                     /\ i # old => mDescriptorPools'[i] = mDescriptorPools[i]
         /\ (~BoundPoolServes /\ descRet'.result \in {"ok", "allocFailed"}) =>
               /\ descRet'.rebound
               /\ bindings'[site] = mCurrentPoolIndex'
               /\ descRet'.pool = mCurrentPoolIndex'
               /\ bindings'[site] # old
               /\ old # 0 =>
                     /\ mDescriptorPools'[old].serial = currentSerial
                     /\ mDescriptorPools'[old].refCount = mDescriptorPools[old].refCount - 1
         /\ \A other \in BindingSites : other # site => bindings'[other] = bindings[other]
      ]_vars

\* Site 2 was served by pool 1, to which it is bound, while the manager's current pool
\* is pool 2, to which site 1 is bound.
C15_Witness ==
    /\ descRet.op = "allocate" /\ descRet.result = "ok"
    /\ descRet.site = 2 /\ descRet.pool = 1 /\ ~descRet.rebound
    /\ mCurrentPoolIndex = 2
    /\ bindings = [site \in BindingSites |-> IF site = 1 THEN 2 ELSE 1]
    /\ mDescriptorPools[1].free = 0

\* ---------------------------------------------------------------- C16

\* The binding sites bound to pool i.
SitesBoundTo(i) == {site \in BindingSites : bindings[site] = i}

\* C16: DescriptorPoolHelper::init runs on an existing pool instance only when no
\* binding site references it (its reference count is zero) and its stamped serial is
\* not in use by the device; then no descriptor set was allocated from it under a
\* serial the device has not completed. In every state a pool's reference count is the
\* number of binding sites bound to it.
C16_ReinitOnlyUnreferencedAndRetired ==
    [][/\ \A i \in DOMAIN mDescriptorPools :
             mDescriptorPools'[i].inits # mDescriptorPools[i].inits =>
                /\ mDescriptorPools[i].refCount = 0
                /\ SitesBoundTo(i) = {}
                /\ ~isSerialInUse(mDescriptorPools[i].serial)
                /\ ~isSerialInUse(mDescriptorPools[i].lastAlloc)
                /\ mDescriptorPools'[i].inits = mDescriptorPools[i].inits + 1
                /\ descRet'.initialized = i
       /\ \A i \in DOMAIN mDescriptorPools' :
             mDescriptorPools'[i].refCount = Cardinality({site \in BindingSites :
                                                             bindings'[site] = i})
      ]_vars

\* Pool 1 served a site under serial 1, was left and stamped, and was initialized a
\* second time after the device completed serial 1, while pool 2 is still referenced.
C16_Witness ==
    /\ descRet.op = "allocate" /\ descRet.result = "ok" /\ descRet.initialized = 1
    /\ mDescriptorPools[1].inits = 2
    /\ mDescriptorPools[1].serial = 1
    /\ lastCompletedSerial >= 1
    /\ Len(mDescriptorPools) = 2
    /\ mDescriptorPools[2].refCount = 1

\* ---------------------------------------------------------------- C17

\* C17 as stated: the number of pool instances never exceeds the ceiling kMaxPools.
C17_PoolCountWithinCeiling == Len(mDescriptorPools) <= kMaxPools

\* ---------------------------------------------------------------- C18

\* The last entry of a non-empty sequence.
Last(seq) == seq[Len(seq)]

\* A step of ImageHelper::changeLayout.
ChangeLayoutStep ==
    /\ Len(imageCalls') = Len(imageCalls) + 1
    /\ Last(imageCalls').op = "changeLayout"

\* A step of changeLayout whose target is the image's current layout.
SameLayoutStep == ChangeLayoutStep /\ Last(imageCalls').layout = mCurrentLayout

\* The commands the step recorded.
Recorded == SubSeq(commandBuffer', Len(commandBuffer) + 1, Len(commandBuffer'))

\* C18: after changeLayout(X) the current layout is X, so a second consecutive
\* changeLayout(X) is a call with target == current; such a call records exactly one
\* barrier command if X's sameLayoutTransitionRequiresBarrier is set, and otherwise
\* records nothing and changes neither layout nor queue family. In both cases the
\* layout and the queue family after the call are those before it.
C18_SameLayoutTwice ==
    [][/\ ChangeLayoutStep => mCurrentLayout' = Last(imageCalls').layout
       /\ SameLayoutStep =>
            /\ SubSeq(commandBuffer', 1, Len(commandBuffer)) = commandBuffer
            /\ IF kImageMemoryBarrierData[mCurrentLayout].sameLayoutTransitionRequiresBarrier
               THEN /\ Len(Recorded) = 1
                    /\ Recorded[1].command \in {"executionBarrier", "imageBarrier"}
               ELSE commandBuffer' = commandBuffer
            /\ UNCHANGED <<mCurrentLayout, mCurrentQueueFamilyIndex>>
      ]_vars

\* changeLayout(ColorAttachment) was called twice in a row: the first call recorded
\* the transition, the second one barrier more.
C18_Witness ==
    /\ Len(imageCalls) = 2
    /\ \A i \in 1..2 : imageCalls[i].op = "changeLayout"
                       /\ imageCalls[i].layout = "ColorAttachment"
    /\ Len(commandBuffer) = 2
    /\ commandBuffer[1].command = "imageBarrier"
    /\ commandBuffer[2].command = "executionBarrier"

\* ---------------------------------------------------------------- C19

\* The layouts whose metadata demands a barrier for a same-layout transition.
BarrierOnSameLayout ==
    {layout \in ImageLayout :
        kImageMemoryBarrierData[layout].sameLayoutTransitionRequiresBarrier}

\* The execution-only barrier of a layout: a stage wait on the layout's own stage
\* mask, which is both its source and its destination stage mask.
ExecutionOnlyBarrier(layout) ==
    [command |-> "executionBarrier",
     stageMask |-> kImageMemoryBarrierData[layout].dstStageMask,
     assertedSrcStageMask |-> kImageMemoryBarrierData[layout].dstStageMask]

C20_LayoutChangeBarrier ==
    [][(ChangeLayoutStep /\ Last(imageCalls').layout # mCurrentLayout) =>
         LET target == Last(imageCalls').layout
             from   == kImageMemoryBarrierData[mCurrentLayout]
             to     == kImageMemoryBarrierData[target]
         IN
         /\ commandBuffer' =
               Append(commandBuffer,
                      [command |-> "imageBarrier",
                       srcStageMask |-> from.srcStageMask,
                       dstStageMask |-> to.dstStageMask,
                       srcAccessMask |-> from.srcAccessMask,
                       dstAccessMask |-> to.dstAccessMask,
                       oldLayout |-> from.layout,
                       newLayout |-> to.layout,
                       srcQueueFamilyIndex |-> mCurrentQueueFamilyIndex,
                       dstQueueFamilyIndex |-> mCurrentQueueFamilyIndex])
         /\ mCurrentLayout' = target
         /\ mCurrentQueueFamilyIndex' = mCurrentQueueFamilyIndex
      ]_vars

\* An image in ColorAttachment was moved to TransferSrc: the barrier waits for the
\* color attachment writes and makes the image readable by transfers.
C20_Witness ==
    /\ Len(imageCalls) = 2
    /\ imageCalls[1] = [op |-> "changeLayout", layout |-> "ColorAttachment", queue |-> 0]
    /\ imageCalls[2] = [op |-> "changeLayout", layout |-> "TransferSrc", queue |-> 0]
    /\ mCurrentLayout = "TransferSrc" /\ mCurrentQueueFamilyIndex = 0
    /\ commandBuffer[2] =
          [command |-> "imageBarrier",
           srcStageMask |-> {"COLOR_ATTACHMENT_OUTPUT"},
           dstStageMask |-> {"TRANSFER"},
           srcAccessMask |-> {"COLOR_ATTACHMENT_WRITE"},
           dstAccessMask |-> {"TRANSFER_READ"},
           oldLayout |-> "COLOR_ATTACHMENT_OPTIMAL",
           newLayout |-> "TRANSFER_SRC_OPTIMAL",
           srcQueueFamilyIndex |-> 0,
           dstQueueFamilyIndex |-> 0]

\* ---------------------------------------------------------------- C21

\* A step of ImageHelper::changeLayoutAndQueue.
ChangeLayoutAndQueueStep ==
    /\ Len(imageCalls') = Len(imageCalls) + 1
    /\ Last(imageCalls').op = "changeLayoutAndQueue"

\* C21: changeLayoutAndQueue with a queue family other than the current owner records
\* exactly one image memory barrier, built from the current and the requested
\* layout's table entries and carrying the old owner as source and the new owner as
\* destination queue family, also when the requested layout is the current layout;
\* afterwards the owner is the new queue family and the layout the requested one.
C21_QueueChangeAlwaysFullBarrier ==
    [][ChangeLayoutAndQueueStep =>
         LET call == Last(imageCalls')
             from == kImageMemoryBarrierData[mCurrentLayout]
             to   == kImageMemoryBarrierData[call.layout]
         IN
         /\ call.queue # mCurrentQueueFamilyIndex
         /\ commandBuffer' =
               Append(commandBuffer,
                      [command |-> "imageBarrier",
                       srcStageMask |-> from.srcStageMask,
                       dstStageMask |-> to.dstStageMask,
                       srcAccessMask |-> from.srcAccessMask,
                       dstAccessMask |-> to.dstAccessMask,
                       oldLayout |-> from.layout,
                       newLayout |-> to.layout,
                       srcQueueFamilyIndex |-> mCurrentQueueFamilyIndex,
                       dstQueueFamilyIndex |-> call.queue])
         /\ mCurrentQueueFamilyIndex' = call.queue
         /\ mCurrentLayout' = call.layout
      ]_vars

\* An image in the read-only layout TransferSrc, owned by family 0, was handed to
\* family 1 in the same layout: an image memory barrier was recorded.
C21_Witness ==
    /\ Len(imageCalls) = 2
    /\ imageCalls[1] = [op |-> "changeLayout", layout |-> "TransferSrc", queue |-> 0]
    /\ imageCalls[2] = [op |-> "changeLayoutAndQueue", layout |-> "TransferSrc", queue |-> 1]
    /\ mCurrentLayout = "TransferSrc" /\ mCurrentQueueFamilyIndex = 1
    /\ Len(commandBuffer) = 2
    /\ commandBuffer[2].command = "imageBarrier"
    /\ commandBuffer[2].oldLayout = commandBuffer[2].newLayout
    /\ commandBuffer[2].srcQueueFamilyIndex = 0
    /\ commandBuffer[2].dstQueueFamilyIndex = 1

\* ---------------------------------------------------------------- C22

\* A step of flushStagedUpdates that went through a non-empty queue.
FlushStep ==
    /\ stagingRet'.op = "flushStagedUpdates"
    /\ stagingRet'.result = "ok"
    /\ mSubresourceUpdates # <<>>

\* The positions, among the events of a call, of the commands that write the image.
Applies(events) ==
    {i \in DOMAIN events :
        events[i].event \in {"clearImage", "copyBufferToImage", "copyImage"}}

IsTransferDstBarrier(e) ==
    e.event = "imageBarrier" /\ e.image = "this" /\ e.newLayout = "TransferDst"

\* The queued update with the given id.
QueuedUpdate(id) == CHOOSE u \in Range(mSubresourceUpdates) : u.id = id

\* The (mip level, array layer) subresources an update writes.
WrittenSubresources(u) ==
    {<<u.mipLevel, layer>> :
        layer \in u.baseArrayLayer ..
                  (u.baseArrayLayer +
                   (IF u.layerCount = kEntireLevel THEN mLayerCount ELSE u.layerCount) - 1)}

\* C22: in one flushStagedUpdates call, any two applied updates that write a common
\* (mip level, array layer) subresource have a TransferDst barrier recorded between
\* them.
C22_BarrierBetweenOverlappingUpdates ==
    [][FlushStep =>
         LET events == stagingRet'.events
         IN  \A i, j \in Applies(events) :
               (/\ i < j
                /\ WrittenSubresources(QueuedUpdate(events[i].update)) \cap
                   WrittenSubresources(QueuedUpdate(events[j].update)) # {})
               => \E k \in (i + 1)..(j - 1) : IsTransferDstBarrier(events[k])
      ]_vars

\* Two copies to the layers 66 and 67 of a 70-layer image, whose hash position
\* wraps, were applied by one call with a barrier between them.
C22_Witness ==
    /\ mLayerCount = 70
    /\ stagingRet.op = "flushStagedUpdates"
    /\ Len(stagingRet.applied) = 2
    /\ stagingRet.applied[1].baseArrayLayer = 66
    /\ stagingRet.applied[2].baseArrayLayer = 66
    /\ \E i, j, k \in DOMAIN stagingRet.events :
         /\ i < k /\ k < j
         /\ stagingRet.events[i].event = "copyBufferToImage"
         /\ IsTransferDstBarrier(stagingRet.events[k])
         /\ stagingRet.events[j].event = "copyBufferToImage"

\* ---------------------------------------------------------------- C23

IsCopy(u) == u.updateSource \in {"Buffer", "Image"}

\* Every Clear precedes every copy, and the copies are in the order of their staging.
QueueOrdered(queue) ==
    \A i, j \in DOMAIN queue :
        i < j => /\ ~(IsCopy(queue[i]) /\ queue[j].updateSource = "Clear")
                 /\ (IsCopy(queue[i]) /\ IsCopy(queue[j])) => queue[i].id < queue[j].id

\* C23: after every stage*, removeStagedUpdates and flushStagedUpdates call the queue
\* has every Clear before every BufferCopy/ImageCopy and the copies in the order in
\* which they were staged; stageSubresourceClear puts the new Clear at the very front.
C23_ClearsFirstCopiesInOrder ==
    [][/\ QueueOrdered(mSubresourceUpdates')
       /\ stagingRet'.op = "stageSubresourceClear" =>
            /\ mSubresourceUpdates' # <<>>
            /\ Head(mSubresourceUpdates').updateSource = "Clear"
            /\ Head(mSubresourceUpdates').id = NextUpdateId(1)
            /\ Tail(mSubresourceUpdates') = mSubresourceUpdates
      ]_vars

\* A Clear staged after a copy stands in front of it.
C23_Witness ==
    /\ stagingRet.op = "stageSubresourceClear"
    /\ Len(mSubresourceUpdates) = 2
    /\ mSubresourceUpdates[1].updateSource = "Clear"
    /\ mSubresourceUpdates[2].updateSource = "Image"
    /\ mSubresourceUpdates[2].id < mSubresourceUpdates[1].id

\* ---------------------------------------------------------------- C24

\* The update's level lies in the window and its layer range intersects the
\* window's layers.
InWindow(u, w) ==
    /\ w.levelStart <= u.mipLevel /\ u.mipLevel < w.levelEnd
    /\ \E s \in WrittenSubresources(u) : w.layerStart <= s[2] /\ s[2] < w.layerEnd

\* The ids of the updates a call's events mention, in the order of the events.
EventIds(events, kinds) ==
    LET chosen == SelectSeq(events, LAMBDA e : e.event \in kinds)
    IN  [i \in DOMAIN chosen |-> chosen[i].update]

Ids(updates) == [i \in DOMAIN updates |-> updates[i].id]

\* C24: flushStagedUpdates applies, in queue order, exactly the queued updates in
\* the window and removes them from the queue; every other update stays queued in
\* its original relative order and is neither applied nor released.
C24_AppliesExactlyTheWindow ==
    [][FlushStep =>
         LET w        == stagingRet'.window
             inside   == SelectSeq(mSubresourceUpdates, LAMBDA u : InWindow(u, w))
             outside  == SelectSeq(mSubresourceUpdates, LAMBDA u : ~InWindow(u, w))
         IN  /\ stagingRet'.applied = inside
             /\ mSubresourceUpdates' = outside
             /\ EventIds(stagingRet'.events,
                         {"clearImage", "copyBufferToImage", "copyImage"}) = Ids(inside)
             /\ EventIds(stagingRet'.events, {"release"}) = Ids(inside)
      ]_vars

\* A flush of layer 0 of the 70-layer image applied the copy to the layers 0..63 and
\* kept the update of layer 2 queued.
C24_Witness ==
    /\ mLayerCount = 70
    /\ stagingRet.op = "flushStagedUpdates"
    /\ stagingRet.window = Window(0, 1, 0, 1)
    /\ Len(stagingRet.applied) = 1
    /\ stagingRet.applied[1].baseArrayLayer = 0
    /\ stagingRet.applied[1].layerCount = 64
    /\ Len(mSubresourceUpdates) = 1
    /\ mSubresourceUpdates[1].baseArrayLayer = 2

\* ---------------------------------------------------------------- C25

\* The (level, layer) entries of the image a window covers.
Covered(w) ==
    {<<level, layer>> \in (0..(mLevelCount - 1)) \X (0..(mLayerCount - 1)) :
        /\ w.levelStart <= level /\ level < w.levelEnd
        /\ w.layerStart <= layer /\ layer < w.layerEnd}

\* Two windows that share no entry and together cover the image.
Complementary(w1, w2) ==
    /\ Covered(w1) \cap Covered(w2) = {}
    /\ Covered(w1) \cup Covered(w2) = (0..(mLevelCount - 1)) \X (0..(mLayerCount - 1))

\* The previous call was a flushStagedUpdates that left updates queued, and this
\* call is a flushStagedUpdates with the complementary window.
ComplementaryFlushStep ==
    /\ FlushStep
    /\ stagingRet.op = "flushStagedUpdates"
    /\ stagingRet.result = "ok"
    /\ Complementary(stagingRet.window, stagingRet'.window)

\* C25: a flushStagedUpdates call leaves every update it did not apply queued, and a
\* following call with the complementary window applies exactly those and leaves
\* the queue empty; no update is applied by both calls and none is lost.
C25_ComplementaryFlushEmptiesQueue ==
    [][/\ FlushStep =>
            /\ Range(Ids(stagingRet'.applied)) \cup Range(Ids(mSubresourceUpdates')) =
               Range(Ids(mSubresourceUpdates))
            /\ Len(stagingRet'.applied) + Len(mSubresourceUpdates') =
               Len(mSubresourceUpdates)
       /\ ComplementaryFlushStep =>
            /\ stagingRet'.applied = mSubresourceUpdates
            /\ mSubresourceUpdates' = <<>>
            /\ Range(Ids(stagingRet'.applied)) \cap Range(Ids(stagingRet.applied)) = {}
      ]_vars

\* The first level was flushed, then the other levels: each call applied one of the
\* two staged updates and the queue is empty.
C25_Witness ==
    /\ mLevelCount = 2
    /\ stagingRet.op = "flushStagedUpdates"
    /\ stagingRet.window = Window(1, 2, 0, 3)
    /\ Len(stagingRet.applied) = 1
    /\ stagingRet.applied[1].mipLevel = 1
    /\ stagingRet.applied[1].id = 1
    /\ mSubresourceUpdates = <<>>
    /\ stagedCalls = 2
    /\ mCurrentLayout = "TransferDst"
    /\ stagingRet.events[1].oldLayout = "TransferDst"

\* ---------------------------------------------------------------- C26

\* The layer count of an applied update, a Clear of the entire level counting every
\* layer of the image.
LayersOf(u) == IF u.layerCount = kEntireLevel THEN mLayerCount ELSE u.layerCount

\* The bit range of width layerCount rotated to position
\* (level * imageLayerCount + baseLayer) mod 64.
MaskBits(u) ==
    {(((u.mipLevel * mLayerCount + u.baseArrayLayer) % 64) + k) % 64 :
        k \in 0..(LayersOf(u) - 1)}

\* The recently-touched mask after the first n of the applied updates.
RECURSIVE MaskAfter(_, _)
MaskAfter(applied, n) ==
    IF n = 0 THEN {}
    ELSE LET u      == applied[n]
             before == MaskAfter(applied, n - 1)
         IN  IF LayersOf(u) >= 64 THEN 0..63
             ELSE IF MaskBits(u) \cap before # {} THEN MaskBits(u)
             ELSE before \cup MaskBits(u)

\* A fresh TransferDst barrier was recorded for the update, before its command.
BarrierBefore(events, u) ==
    \E k, a \in DOMAIN events :
        /\ k < a
        /\ IsTransferDstBarrier(events[k]) /\ events[k].update = u.id
        /\ a \in Applies(events) /\ events[a].update = u.id

\* C26: for an applied update of fewer than 64 layers, a fresh TransferDst barrier is
\* recorded before it exactly when its bit range overlaps the bits set since the
\* last barrier; the mask then restarts from this update's bits, otherwise the
\* bits are added to it.
C26_BarrierIffMaskOverlap ==
    [][FlushStep =>
         LET applied == stagingRet'.applied
         IN  \A n \in DOMAIN applied :
               LayersOf(applied[n]) < 64 =>
                 (BarrierBefore(stagingRet'.events, applied[n])
                    <=> MaskBits(applied[n]) \cap MaskAfter(applied, n - 1) # {})
      ]_vars

\* Two clears of layer 0 on different levels of the 3-layer image were applied
\* back to back: the only barrier is the one at the start of the flush.
C26_Witness ==
    /\ mLayerCount = 3
    /\ stagingRet.op = "flushStagedUpdates"
    /\ Len(stagingRet.applied) = 2
    /\ stagingRet.applied[1].mipLevel # stagingRet.applied[2].mipLevel
    /\ stagingRet.applied[1].baseArrayLayer = stagingRet.applied[2].baseArrayLayer
    /\ stagingRet.applied[1].layerCount = 1
    /\ stagingRet.applied[2].layerCount = 1
    /\ Len(SelectSeq(stagingRet.events, IsTransferDstBarrier)) = 1
    /\ stagingRet.events[1].update = 0

\* ---------------------------------------------------------------- C27

\* C27: an applied update of 64 or more layers is always preceded by a fresh
\* TransferDst barrier, and so is the next applied update that touches at least one
\* layer.
C27_ManyLayersAlwaysBarrier ==
    [][FlushStep =>
         LET applied == stagingRet'.applied
             events  == stagingRet'.events
         IN  \A n \in DOMAIN applied :
               LayersOf(applied[n]) >= 64 =>
                 /\ BarrierBefore(events, applied[n])
                 /\ (n + 1 \in DOMAIN applied /\ LayersOf(applied[n + 1]) >= 1)
                      => BarrierBefore(events, applied[n + 1])
      ]_vars

\* A copy to 64 layers and then a copy to the single layer 2 were applied: with the
\* barrier at the start of the flush, three barriers were recorded.
C27_Witness ==
    /\ mLayerCount = 70
    /\ stagingRet.op = "flushStagedUpdates"
    /\ Len(stagingRet.applied) = 2
    /\ stagingRet.applied[1].layerCount = 64
    /\ stagingRet.applied[2].layerCount = 1
    /\ stagingRet.applied[2].baseArrayLayer = 2
    /\ Len(SelectSeq(stagingRet.events, IsTransferDstBarrier)) = 3

\* ---------------------------------------------------------------- C28

\* A flushStagedUpdates call on an empty queue.
EmptyFlushStep ==
    /\ stagingRet'.op = "flushStagedUpdates"
    /\ mSubresourceUpdates = <<>>

\* C28: flushStagedUpdates on an empty queue records no barrier and no other command,
\* does not flush the staging buffer, and leaves the layout, the queue owner and the
\* staging allocator as they were.
C28_EmptyFlushIsNoOp ==
    [][EmptyFlushStep =>
         /\ stagingRet'.result = "ok"
         /\ stagingRet'.events = <<>>
         /\ commandBuffer' = <<>>
         /\ UNCHANGED <<mCurrentLayout, mCurrentQueueFamilyIndex, mSubresourceUpdates>>
         /\ UNCHANGED bufferVars
      ]_vars

\* flushStagedUpdates ran on an empty queue while the staging allocator held
\* unflushed data (of an update that was removed): nothing was recorded or flushed.
C28_Witness ==
    /\ stagingRet.op = "flushStagedUpdates"
    /\ stagingRet.events = <<>>
    /\ mSubresourceUpdates = <<>>
    /\ mCurrentLayout = "Undefined"
    /\ HasUnsyncedRange
    /\ commandBuffer = <<>>

\* ---------------------------------------------------------------- C29

\* What a call recorded for one update, without the barriers of the destination.
EventsOf(events, u) ==
    SelectSeq(events, LAMBDA e : e.update = u.id /\ ~IsTransferDstBarrier(e))

\* The event names of a sequence of events.
Names(events) == [i \in DOMAIN events |-> events[i].event]

\* The source image went from its layout to TransferSrc.
SourceTransition(e, u) ==
    /\ e.event = "imageBarrier" /\ e.image = "source"
    /\ e.oldLayout = u.imageLayout /\ e.newLayout = "TransferSrc"

\* C29: for an applied ImageCopy the source image is taken to TransferSrc, then the
\* read dependency on it is registered, then the image-to-image copy is recorded
\* with the source in TransferSrc and the destination in TransferDst, and only then
\* the source is released; a Clear records a clear command and a BufferCopy a
\* buffer-to-image copy.
C29_ImageCopyOrder ==
    [][FlushStep =>
         \A n \in DOMAIN stagingRet'.applied :
            LET u  == stagingRet'.applied[n]
                es == EventsOf(stagingRet'.events, u)
            IN  CASE u.updateSource = "Image" ->
                       LET tail == IF u.imageLayout = "TransferSrc" THEN es ELSE Tail(es)
                       IN  /\ es # <<>>
                           /\ u.imageLayout # "TransferSrc" => SourceTransition(es[1], u)
                           /\ Names(tail) = <<"addReadDependency", "copyImage", "release">>
                           /\ tail[2].srcLayout = "TransferSrc"
                           /\ tail[2].dstLayout = "TransferDst"
                           /\ tail[3].updateSource = "Image"
                  [] u.updateSource = "Clear" ->
                       /\ Names(es) = <<"clearImage", "release">>
                       /\ es[1].layout = "TransferDst"
                  [] u.updateSource = "Buffer" ->
                       /\ Names(es) = <<"copyBufferToImage", "release">>
                       /\ es[1].bufferHandle = u.bufferHandle
                       /\ es[1].dstLayout = "TransferDst"
      ]_vars

\* An ImageCopy whose source was a color attachment was applied: barrier of the
\* source, read dependency, copy, release.
C29_Witness ==
    /\ stagingRet.op = "flushStagedUpdates"
    /\ Len(stagingRet.applied) = 1
    /\ stagingRet.applied[1].updateSource = "Image"
    /\ stagingRet.applied[1].imageLayout = "ColorAttachment"
    /\ Names(stagingRet.events) =
         <<"imageBarrier", "imageBarrier", "addReadDependency", "copyImage", "release">>
    /\ stagingRet.events[2].image = "source"
    /\ stagingRet.events[2].newLayout = "TransferSrc"

\* ---------------------------------------------------------------- C30

TeardownOps == {"release", "releaseToDisplay", "destroy"}

\* A teardown call of the DynamicBuffer (on its own or as the staging allocator).
TeardownStep == ret'.op \in TeardownOps

\* A call of ImageHelper::releaseStagingBuffer.
ReleaseStagingStep == ~IsStandaloneBuffer /\ stagingRet'.op \in {"release", "releaseToDisplay"}

\* No buffer is listed twice.
DuplicateFree(list) == \A i, j \in DOMAIN list : list[i] = list[j] => i = j

\* C30: after release (either variant) or destroy the current generation is null,
\* both lists are empty, the target capacity and the offsets are zero, and every
\* buffer that was live (listed once, not yet released) is released; after
\* releaseStagingBuffer the queue is empty and every queued update, the ImageCopy
\* sources among them, has been released once.
C30_TeardownLeavesNothing ==
    [][/\ TeardownStep =>
            /\ mBuffer' = NoBuffer
            /\ mInFlightBuffers' = <<>>
            /\ mBufferFreeList' = <<>>
            /\ mSize' = 0
            /\ mNextAllocationOffset' = 0
            /\ mLastFlushOrInvalidateOffset' = 0
            /\ DuplicateFree(LiveBuffers)
            /\ \A b \in Range(LiveBuffers) : ~buffers[b].released /\ buffers'[b].released
            /\ \A b \in DOMAIN buffers' : buffers'[b].released
       /\ ReleaseStagingStep =>
            /\ TeardownStep
            /\ mSubresourceUpdates' = <<>>
            /\ Len(stagingRet'.events) = Len(mSubresourceUpdates)
            /\ \A i \in DOMAIN mSubresourceUpdates :
                  /\ stagingRet'.events[i].event = "release"
                  /\ stagingRet'.events[i].update = mSubresourceUpdates[i].id
                  /\ stagingRet'.events[i].updateSource = mSubresourceUpdates[i].updateSource
      ]_vars

\* A standalone DynamicBuffer that had created at least three generations was
\* destroyed: all of them are released and no generation is current.
C30_Witness ==
    /\ IsStandaloneBuffer
    /\ ret.op = "destroy"
    /\ Cardinality({b \in DOMAIN buffers : buffers[b].released}) >= 3
    /\ mBuffer = NoBuffer
    /\ mSize = 0

\* ---------------------------------------------------------------- C31

\* An allocate call of the DynamicBuffer that needed a new generation while the
\* free list offered only a front buffer the device still uses.
AllocateWithBusyFront ==
    /\ ~IsPoolRun
    /\ allocCalls' = allocCalls + 1
    /\ ret'.newBuffer
    /\ ret'.result \notin {"flushFailed", "createFailed"}
    /\ mBufferFreeList # <<>>
    /\ ret'.size <= mSize
    /\ isResourceInUse(buffers[Head(mBufferFreeList)])

\* An allocation from the entry pool whose current pool is exhausted while every
\* fully freed pool is still in use by the device.
AllocateEntryWithBusyPools ==
    /\ IsPoolRun
    /\ poolRet'.op = "allocate" /\ poolCalls' = poolCalls + 1
    /\ poolRet'.result = "ok"
    /\ CurrentPoolExhausted
    /\ \E i \in DOMAIN mPoolStats : mPoolStats[i].freedCount = mPoolSize
    /\ \A i \in DOMAIN mPoolStats :
          mPoolStats[i].freedCount = mPoolSize => mPoolStats[i].serial > lastCompletedSerial

\* C31: no allocation waits for the device. allocate and the pool allocation can be
\* taken in every state, whatever the last completed serial; when the only candidate
\* for recycling is still in use they create a fresh buffer or pool, and the serials
\* are the same after the call.
C31_AllocationNeverWaits ==
    /\ [](/\ (~IsPoolRun /\ Running /\ allocCalls < MaxAllocs) =>
                \A sizeInBytes \in AllocSizes, flushOk, createOk, mapOk \in BOOLEAN :
                    ENABLED (Allocate(sizeInBytes, flushOk, createOk, mapOk) /\ UnchangedPool)
          /\ (IsPoolRun /\ poolCalls < MaxPoolCalls) =>
                \A createOk \in BOOLEAN : ENABLED AllocateEntry(createOk))
    /\ [][/\ AllocateWithBusyFront =>
               /\ mBuffer' = Len(buffers) + 1
               /\ Len(buffers') = Len(buffers) + 1
               /\ mBufferFreeList' = mBufferFreeList
               /\ UNCHANGED serialVars
          /\ AllocateEntryWithBusyPools =>
               /\ poolRet'.created
               /\ mCurrentPool' = Len(mPoolStats) + 1
               /\ Len(mPoolStats') = Len(mPoolStats) + 1
               /\ UNCHANGED serialVars
         ]_vars

\* allocate created a generation although the free list holds a buffer of the
\* target capacity: its front is still in use by the device.
C31_Witness ==
    /\ ~IsPoolRun
    /\ ret.op = "allocate" /\ ret.newBuffer /\ ret.result = "ok"
    /\ mBufferFreeList # <<>>
    /\ buffers[Head(mBufferFreeList)].size = mSize
    /\ isResourceInUse(buffers[Head(mBufferFreeList)])
    /\ mBuffer = Len(buffers)

\* ---------------------------------------------------------------- C32

RECURSIVE GCD(_, _)
GCD(a, b) == IF b = 0 THEN a ELSE GCD(b, a % b)

LCM(a, b) == (a * b) \div GCD(a, b)

\* Neither value divides the other.
Incomparable(a, b) == a % b # 0 /\ b % a # 0

\* C32: updateAlignment configures lcm(requested alignment, nonCoherentAtomSize) for
\* every power-of-two atom size and every requested alignment that is a power of two
\* or three times one, also when neither divides the other.
C32_AlignmentIsLcm ==
    /\ [](\A alignment \in AlignmentRequests :
             UpdatedAlignment(alignment, nonCoherentAtomSize) =
                 LCM(alignment, nonCoherentAtomSize))
    /\ [][\A alignment \in AlignmentRequests :
             UpdateAlignment(alignment) =>
                 mAlignment' = LCM(alignment, nonCoherentAtomSize)
         ]_vars

\* updateAlignment has configured an alignment that is neither the request nor the
\* atom size: a request of 12 (or 24, 48) on a device whose atom size is 32.
C32_Witness ==
    /\ ret.op = "updateAlignment"
    /\ nonCoherentAtomSize = 32
    /\ mAlignment = 96
    /\ \E alignment \in AlignmentRequests :
          /\ Incomparable(alignment, nonCoherentAtomSize)
          /\ LCM(alignment, nonCoherentAtomSize) = mAlignment

\* ---------------------------------------------------------------- C33

\* A call of allocateSetsAndGetInfo that reported an error of the device or the
\* ceiling violation.
FailedDescriptorAllocation ==
    /\ descCalls' = descCalls + 1
    /\ descRet'.result \in {"tooManyObjects", "initFailed", "allocFailed"}

\* The free-descriptor-set count of every pool.
FreeSetCounts(pools) == [i \in DOMAIN pools |-> pools[i].free]

\* C33 as stated: a failed pool allocation leaves the pool manager in its prior
\* state: the length of the pool list, the current-pool index, the free-descriptor-set
\* count of every pool and the pool every binding site is bound to are unchanged.
C33_FailedAllocationNotApplied ==
    [][FailedDescriptorAllocation =>
          /\ Len(mDescriptorPools') = Len(mDescriptorPools)
          /\ mCurrentPoolIndex' = mCurrentPoolIndex
          /\ FreeSetCounts(mDescriptorPools') = FreeSetCounts(mDescriptorPools)
          /\ bindings' = bindings
      ]_vars

\* ---------------------------------------------------------------- C34

\* C34 as stated: whenever allocate reaches the point of handing out a suballocation
\* a current backing buffer exists: ASSERT(mBuffer != nullptr) never fails.
C34_CurrentBufferExists == ret.op = "allocate" => ret.result # "nullDeref"

\* ---------------------------------------------------------------- C35

\* An allocate call that selected a new current generation.
NewGenerationStep ==
    /\ allocCalls' = allocCalls + 1
    /\ ret'.newBuffer
    /\ ret'.result \in {"ok", "mapFailed"}

\* C35 as stated: the generation allocate selects, fresh or from the free list, has
\* the target capacity: ASSERT(mBuffer->getSize() == mSize) never fails.
C35_NewGenerationHasTargetSize ==
    [][NewGenerationStep => buffers'[mBuffer'].size = mSize']_vars

\* ---------------------------------------------------------------- C36

\* The serials stamped on the buffers of a list, front to back.
StampedSerials(list) == [i \in DOMAIN list |-> buffers[list[i]].serial]

\* The serials never decrease from front to back.
OldestFirst(serials) == \A i, j \in DOMAIN serials : i < j => serials[i] <= serials[j]

\* C36: the free list is ordered oldest first: the stamped serials of its buffers do
\* not decrease from front to back, so when the front is still in use by the device
\* every buffer of the free list is, and the check of the front skips no reusable
\* buffer.
C36_FreeListOldestFirst ==
    /\ OldestFirst(StampedSerials(mBufferFreeList))
    /\ (mBufferFreeList # <<>> /\ isResourceInUse(buffers[Head(mBufferFreeList)])) =>
           \A b \in Range(mBufferFreeList) : isResourceInUse(buffers[b])

\* Two generations retired under different serials are on the free list and the
\* device has completed the serial of the front only.
C36_Witness ==
    /\ Len(mBufferFreeList) >= 2
    /\ buffers[mBufferFreeList[1]].serial < buffers[mBufferFreeList[2]].serial
    /\ ~isResourceInUse(buffers[mBufferFreeList[1]])
    /\ isResourceInUse(buffers[mBufferFreeList[2]])

\* ---------------------------------------------------------------- C37

\* The layout an event records the destination image in.
DestinationLayout(e) == IF e.event = "clearImage" THEN e.layout ELSE e.dstLayout

\* The events of a call that belong to no update.
LeadingEvents(events) == {i \in DOMAIN events : events[i].update = 0}

\* C37: a flushStagedUpdates call on a non-empty queue records the transition of the
\* image to TransferDst once, before the first update is examined, whatever the
\* previous layout and whether or not an update lies in the window; every clear,
\* buffer-to-image copy and image-to-image copy it records is recorded with the
\* image in TransferDst.
C37_WritesInTransferDst ==
    [][FlushStep =>
         LET events == stagingRet'.events
         IN  /\ LeadingEvents(events) = {1}
             /\ events[1].event = "imageBarrier"
             /\ events[1].image = "this"
             /\ events[1].oldLayout = mCurrentLayout
             /\ events[1].newLayout = "TransferDst"
             /\ mCurrentLayout' = "TransferDst"
             /\ \A i \in Applies(events) : DestinationLayout(events[i]) = "TransferDst"
      ]_vars

\* A flush whose window held none of the queued updates recorded the transition
\* from Undefined and nothing else.
C37_Witness ==
    /\ stagingRet.op = "flushStagedUpdates"
    /\ stagingRet.result = "ok"
    /\ stagingRet.applied = <<>>
    /\ mSubresourceUpdates # <<>>
    /\ Len(stagingRet.events) = 1
    /\ stagingRet.events[1].event = "imageBarrier"
    /\ stagingRet.events[1].oldLayout = "Undefined"
    /\ mCurrentLayout = "TransferDst"

\* ---------------------------------------------------------------- C38

\* Every (level, layer) of the image has a bit of its own.
FitsTheMask == mLevelCount * mLayerCount <= kMaxParallelSubresourceUpload

\* The subresources written by the first n applied updates since the last barrier
\* that was recorded.
RECURSIVE WrittenSinceBarrier(_, _, _)
WrittenSinceBarrier(events, applied, n) ==
    IF n = 0 THEN {}
    ELSE IF BarrierBefore(events, applied[n]) THEN WrittenSubresources(applied[n])
    ELSE WrittenSinceBarrier(events, applied, n - 1) \cup WrittenSubresources(applied[n])

\* C38: on an image of at most 64 subresources no barrier is unnecessary: a fresh
\* TransferDst barrier precedes an applied update of fewer than 64 layers exactly
\* when the update writes a (level, layer) that an update applied since the last
\* barrier has written.
C38_NoUnnecessaryBarrier ==
    [][(FlushStep /\ FitsTheMask) =>
         LET applied == stagingRet'.applied
             events  == stagingRet'.events
         IN  \A n \in DOMAIN applied :
               LayersOf(applied[n]) < 64 =>
                 (BarrierBefore(events, applied[n])
                    <=> WrittenSubresources(applied[n]) \cap
                        WrittenSinceBarrier(events, applied, n - 1) # {})
      ]_vars

\* On the 2 x 3 image one call applied three updates or more, among them one that
\* needed a barrier and a later one that did not.
C38_Witness ==
    /\ FitsTheMask
    /\ stagingRet.op = "flushStagedUpdates"
    /\ Len(stagingRet.applied) >= 3
    /\ \E m, n \in DOMAIN stagingRet.applied :
          /\ 1 < m /\ m < n
          /\ BarrierBefore(stagingRet.events, stagingRet.applied[m])
          /\ ~BarrierBefore(stagingRet.events, stagingRet.applied[n])

\* ---------------------------------------------------------------- C39

\* A stage* call made a buffer of the free list the current allocation target.
StagingBufferReused ==
    /\ stagedCalls' = stagedCalls + 1
    /\ ret'.newBuffer
    /\ mBuffer' \in DOMAIN buffers

\* C39 as stated: a staging buffer that a recorded buffer-to-image copy reads is not
\* made the allocation target again before the serial under which the copy was
\* recorded is retired.
C39_NoReuseBeforeCopyRetired ==
    [][StagingBufferReused => ~isSerialInUse(buffers[mBuffer'].readSerial)]_vars

\* ---------------------------------------------------------------- C40

\* An allocate call that handed out a suballocation.
SuccessfulAllocation == AllocateStep /\ ret'.result = "ok"

\* C40: every suballocation lies inside its generation: a successful allocate
\* returns an offset with offset + roundUp(size, alignment) <= the capacity of the
\* buffer it is taken from, and the flush watermark never passes the allocation
\* offset.
C40_SuballocationInsideGeneration ==
    /\ [](/\ mLastFlushOrInvalidateOffset <= mNextAllocationOffset
          /\ \A i \in DOMAIN genLog :
                genLog[i].offset + genLog[i].size <= buffers[genLog[i].buffer].capacity)
    /\ [][SuccessfulAllocation =>
            /\ ret'.buffer = mBuffer'
            /\ ret'.size = roundUp(ret'.size, mAlignment)
            /\ ret'.offset + ret'.size <= buffers'[ret'.buffer].capacity
            /\ mNextAllocationOffset' = ret'.offset + ret'.size
         ]_vars

\* A request larger than the initial size was handed a generation of its own, which
\* it fills to the last byte, after the previous generation was flushed and retired.
C40_Witness ==
    /\ ret.op = "allocate" /\ ret.result = "ok" /\ ret.newBuffer
    /\ ret.syncSize > 0
    /\ ret.offset = 0
    /\ ret.size > mInitialSize
    /\ ret.size = buffers[mBuffer].capacity
    /\ mLastFlushOrInvalidateOffset < mNextAllocationOffset

====
